---- MODULE Spec2Model ----
(***************************************************************************)
(* Verification model of the ESP32 CAN gateway (Nissan CAN bus to Toyota   *)
(* RAV4 head-unit protocol): the schema-driven frame decoder               *)
(* (CanConfigProcessor), the shared vehicle state (GlobalData) and the     *)
(* checksummed protocol encoder and transmit scheduler (RadioSend).        *)
(***************************************************************************)
EXTENDS Integers, Sequences, FiniteSets, TLC

VARIABLES
    encCmd,     \* cmd argument of the last direct sendCanboxMessage call
    encData,    \* data argument (len = Len) of the last direct call
    radioTx,    \* RadioSerial output of the last operation: one byte
                \* sequence per sendCanboxMessage call, in call order
    radioRx,    \* RadioSerial input: the bytes received and not yet read
    radioRead,  \* the bytes the last handshake() call read from RadioSerial
    fField,     \* FieldConfig handed to applyFormula
    fHist,      \* the last (at most two) applications of applyFormula to
                \* fField, newest first: <<rawValue, returned value>>
    millis,     \* millisecond clock, uint32_t
    gd,         \* GlobalData: the shared vehicle state
    profile,    \* CanConfigProcessor::_profile
    framesProcessed,    \* CanConfigProcessor::_framesProcessed
    unknownFrames,      \* CanConfigProcessor::_unknownFrames
    rxCount,    \* number of frames handed to processFrame so far
    lastFrame,  \* the frame handed to the last processFrame call
    readIdx,    \* indices of frame.data read by the last processFrame call
    ret,        \* value returned by the last processFrame call
    lastDoc,    \* the file content handed to the last loadFromJson call
    loadRet,    \* value returned by the last loadFromJson call (FALSE when
                \* the command gave up before calling it)
    rs,         \* the static timers and last-sent payloads of RadioSend.cpp
    config,     \* ConfigManager: the calibration values in effect
    tickCount,  \* number of processRadioUpdates calls so far
    pc,         \* position of the main loop: "serial", "reset" (inside a
                \* CAN LOAD / CAN RELOAD, before resetVehicleData),
                \* "acquire" or "radio"; "fault" and "restart" after
                \* ESP.restart() on a bus fault resp. on bus silence,
                \* "reboot" after the one that ends a firmware update
    mockMode,   \* CanConfigProcessor::_mockMode
    lastCanMessageTime, \* main.cpp: lastCanMessageTime, uint32_t
    mock,       \* MockDataGenerator: timers, values and directions
    restarted,  \* ESP.restart() was called
    lastCmd,    \* the serial command of the current loop iteration
    ota,        \* SerialCommand.cpp: the OTA statics (otaInProgress, sizes,
                \* otaExpectedMD5) and the bytes added to otaMD5
    firmware,   \* the image the next boot runs: "old", or "new" after
                \* Update.end(true) succeeded
    upload,     \* SerialCommand.cpp: the CAN UPLOAD statics and buffer
    fs,         \* LittleFS: file name -> content
    nvs,        \* Preferences namespace "canbox"
    reply,      \* first word of the answer to the last serial command
    cmdCount,   \* number of command lines handled outside the main loop
    gdSchema    \* GlobalData as processFrame leaves it, where the two
                \* decoders are run side by side on the same frames

encVars == <<encCmd, encData>>
uartVars == <<radioRx, radioRead>>
fmlVars == <<fField, fHist>>
procVars == <<profile, framesProcessed, unknownFrames>>
rxVars == <<rxCount, lastFrame, readIdx, ret>>
loadVars == <<lastDoc, loadRet>>
schedVars == <<rs, config, tickCount>>
loopVars == <<pc, mockMode, lastCanMessageTime, mock, restarted, lastCmd>>
cmdVars == <<ota, firmware, upload, fs, nvs, reply, cmdCount>>
eqVars == <<gdSchema>>
vars == <<encCmd, encData, radioTx, radioRx, radioRead, fField, fHist, millis, gd, profile,
          framesProcessed, unknownFrames, rxCount, lastFrame, readIdx, ret,
          lastDoc, loadRet, rs, config, tickCount, pc, mockMode,
          lastCanMessageTime, mock, restarted, lastCmd, ota, firmware,
          upload, fs, nvs, reply, cmdCount, gdSchema>>

-----------------------------------------------------------------------------
(* Bounds of the model *)

MaxPayloadLen == 3
MaxFrames == 3
MaxCfgCommands == 4
MaxUploadCommands == 4
MaxTicks == 3
MaxInbound == 6

(* Sample values for the arguments of a direct encoder call *)
ByteSamples == {0, 1, 18, 52, 128, 255}
CmdSamples == {36, 41, 125, 255}

(* Sample raw values and formula parameters for applyFormula *)
RawSamples ==
    {(-2147483647) - 1, -32768, -100, -1, 0, 1, 7, 100, 128, 255, 1023,
     17534, 65535, 2147483647}
ScaleParams ==
    {<<m, d, o, 0>> : m \in {0, 1, 100, -2, 70000}, d \in {0, 1, 7, 283, -3},
                      o \in {0, -40, 5}}
MapParams ==
    {<<i[1], i[2], o[1], o[2]>> :
        i \in {<<255, 0>>, <<0, 255>>, <<0, 1023>>, <<-100, 100>>, <<7, 7>>},
        o \in {<<0, 45>>, <<45, 0>>, <<0, 100>>, <<-40, 215>>, <<5, 5>>}}

-----------------------------------------------------------------------------
(* 8-bit and bitwise arithmetic *)

RECURSIVE BitXor(_, _)
BitXor(a, b) ==
    IF a = 0 /\ b = 0 THEN 0
    ELSE (((a % 2) + (b % 2)) % 2) + 2 * BitXor(a \div 2, b \div 2)

RECURSIVE BitAnd(_, _)
BitAnd(a, b) ==
    IF a = 0 \/ b = 0 THEN 0
    ELSE ((a % 2) * (b % 2)) + 2 * BitAnd(a \div 2, b \div 2)

RECURSIVE BitOr(_, _)
BitOr(a, b) ==
    IF a = 0 /\ b = 0 THEN 0
    ELSE (IF a % 2 = 1 \/ b % 2 = 1 THEN 1 ELSE 0) + 2 * BitOr(a \div 2, b \div 2)

U8(x) == x % 256

\* 32-bit two's complement arithmetic.  A uint32_t is held as the int32_t
\* with the same bit pattern, so that every value stays a 32-bit integer.
MaxI32 == 2147483647
MinI32 == (-2147483647) - 1
Half32 == 1073741824

AddWrap32(a, b) ==
    IF a >= 0 /\ b >= 0 /\ a > MaxI32 - b
    THEN ((a - Half32) - Half32) + ((b - Half32) - Half32)
    ELSE IF a < 0 /\ b < 0 /\ a < MinI32 - b
    THEN ((a + Half32) + Half32) + ((b + Half32) + Half32)
    ELSE a + b

NegWrap32(a) == IF a = MinI32 THEN MinI32 ELSE 0 - a

SubWrap32(a, b) == AddWrap32(a, NegWrap32(b))

RECURSIVE MulNat32(_, _)
MulNat32(a, n) ==
    IF n = 0 THEN 0
    ELSE LET h == MulNat32(a, n \div 2)
         IN  AddWrap32(IF n % 2 = 1 THEN a ELSE 0, AddWrap32(h, h))

MulWrap32(a, b) ==
    IF b >= 0 THEN MulNat32(a, b)
    ELSE IF b = MinI32 THEN (IF a % 2 = 1 THEN MinI32 ELSE 0)
    ELSE NegWrap32(MulNat32(a, 0 - b))

Abs(x) == IF x < 0 THEN 0 - x ELSE x

\* C integer division truncates toward zero.  INT_MIN / -1 overflows; the
\* RISC-V div instruction of the target returns INT_MIN for it.
DivI32(a, b) ==
    IF a = MinI32 THEN
        (IF b = -1 \/ b = 1 THEN MinI32
         ELSE IF b = MinI32 THEN 1
         ELSE LET q == (MaxI32 \div Abs(b)) +
                       (IF (MaxI32 % Abs(b)) + 1 = Abs(b) THEN 1 ELSE 0)
              IN  IF b > 0 THEN 0 - q ELSE q)
    ELSE IF b = MinI32 THEN 0
    ELSE LET q == Abs(a) \div Abs(b)
         IN  IF (a < 0) # (b < 0) THEN 0 - q ELSE q

-----------------------------------------------------------------------------
(* VehicleConfig.h: FieldConfig, FrameConfig, VehicleProfile *)

DataTypes == {"UINT8", "INT8", "UINT16", "INT16", "UINT24", "UINT32", "BITMASK"}
ByteOrders == {"MSB_FIRST", "LSB_FIRST"}
FormulaTypes == {"NONE", "SCALE", "MAP_RANGE", "BITMASK_EXTRACT"}
OutputFields ==
    {"STEERING", "ENGINE_RPM", "VEHICLE_SPEED", "FUEL_LEVEL", "ODOMETER",
     "VOLTAGE", "TEMPERATURE", "DTE", "FUEL_CONS_INST", "FUEL_CONS_AVG",
     "DOOR_DRIVER", "DOOR_PASSENGER", "DOOR_REAR_LEFT", "DOOR_REAR_RIGHT",
     "DOOR_BOOT", "INDICATOR_LEFT", "INDICATOR_RIGHT", "HEADLIGHTS",
     "HIGH_BEAM", "PARKING_LIGHTS"}

FieldConfig(target, startByte, byteCount, byteOrder, dataType, formula, params) ==
    [target |-> target, startByte |-> startByte, byteCount |-> byteCount,
     byteOrder |-> byteOrder, dataType |-> dataType, formula |-> formula,
     params |-> params]

-----------------------------------------------------------------------------
(* CanConfigProcessor.cpp: applyFormula *)

\* Arduino map(): long arithmetic, 32 bits wide on the target; the ESP32
\* core returns -1 when in_min == in_max.
\* The body with the endpoints of the output range swapped.
MapSwapped(x, in_min, in_max, out_min, out_max) ==
    LET run == SubWrap32(in_max, in_min)
        rise == SubWrap32(out_min, out_max)
        delta == SubWrap32(x, in_min)
    IN  IF run = 0 THEN -1
        ELSE AddWrap32(DivI32(MulWrap32(delta, rise), run), out_max)

Map(x, in_min, in_max, out_min, out_max) ==
    LET run == SubWrap32(in_max, in_min)
        rise == SubWrap32(out_max, out_min)
        delta == SubWrap32(x, in_min)
    IN  IF run = 0 THEN -1
        ELSE AddWrap32(DivI32(MulWrap32(delta, rise), run), out_min)

\* Division that rounds to nearest instead of truncating.
ScaleRounding(rawValue, p) ==
    LET mult == IF p[1] # 0 THEN p[1] ELSE 1
        div == IF p[2] # 0 THEN p[2] ELSE 1
        prod == MulWrap32(rawValue, mult)
        q == DivI32(prod, div)
        r == Abs(prod - (q * div))
    IN  AddWrap32(IF 2 * r >= Abs(div)
                  THEN (IF (prod < 0) # (div < 0) THEN q - 1 ELSE q + 1)
                  ELSE q, p[3])

\* case FormulaType::SCALE
Scale(rawValue, p) ==
    LET mult == IF p[1] # 0 THEN p[1] ELSE 1
        div == IF p[2] # 0 THEN p[2] ELSE 1
        offset == p[3]
    IN  AddWrap32(DivI32(MulWrap32(rawValue, mult), div), offset)

\* (rawValue & mask) >> shift on int32_t; >> is an arithmetic shift
RECURSIVE Pow2(_)
Pow2(n) == IF n = 0 THEN 1 ELSE 2 * Pow2(n - 1)

BitAnd32(a, b) ==
    LET lo(x) == IF x < 0 THEN (x + MaxI32) + 1 ELSE x
    IN  BitAnd(lo(a), lo(b)) + (IF a < 0 /\ b < 0 THEN MinI32 ELSE 0)

BitmaskExtract(rawValue, p) ==
    LET m == BitAnd32(rawValue, p[1])
        sh == p[2] % 32
    IN  IF sh = 31 THEN (IF m < 0 THEN -1 ELSE 0) ELSE m \div Pow2(sh)

ApplyFormula(rawValue, field) ==
    CASE field.formula = "NONE" -> rawValue
      [] field.formula = "SCALE" -> Scale(rawValue, field.params)
      [] field.formula = "MAP_RANGE" ->
            Map(rawValue, field.params[1], field.params[2],
                field.params[3], field.params[4])
      [] field.formula = "BITMASK_EXTRACT" ->
            BitmaskExtract(rawValue, field.params)
      [] OTHER -> rawValue

-----------------------------------------------------------------------------
(* GlobalData.cpp: the shared vehicle data and its defaults.  voltBat is  *)
(* held in tenths of a volt (the float is that count times 0.1f).         *)

GlobalDataDefaults ==
    [currentSteer |-> 0, engineRPM |-> 0, vehicleSpeed |-> 0,
     currentDoors |-> 0, fuelLevel |-> 0, voltBat |-> 0, dteValue |-> 0,
     tempExt |-> 0, currentOdo |-> 0, headlightsOn |-> FALSE,
     highBeamOn |-> FALSE, parkingLightsOn |-> FALSE,
     lastLeftIndicatorTime |-> 0, lastRightIndicatorTime |-> 0,
     fuelConsumptionInst |-> 0, fuelConsumptionAvg |-> 0,
     averageSpeed |-> 0, elapsedTime |-> 0]

-----------------------------------------------------------------------------
(* CanConfigProcessor.cpp: findFrameConfig, extractRawValue,               *)
(* writeToGlobalData, processFrame                                         *)

U16(x) == x % 65536
S8(x) == LET u == x % 256 IN IF u >= 128 THEN u - 256 ELSE u
S16(x) == LET u == x % 65536 IN IF u >= 32768 THEN u - 65536 ELSE u

\* Linear search, first match wins; 0 when no frame has this canId
FindFrameConfig(prof, canId) ==
    LET hits == {i \in 1..Len(prof.frames) : prof.frames[i].canId = canId}
    IN  IF hits = {} THEN 0
        ELSE CHOOSE i \in hits : \A j \in hits : i <= j

\* data[idx]: frame.data has 8 elements; an index past the array reads
\* whatever byte follows it in memory (oob)
DataByte(data, idx, oob) == IF idx < 8 THEN data[idx + 1] ELSE oob

\* (rawUnsigned << 8) | byte on uint32_t
ShiftIn(rawUnsigned, byte) ==
    LET lo == rawUnsigned % 16777216
    IN  (IF lo >= 8388608 THEN (lo - 16777216) * 256 ELSE lo * 256) + byte

RECURSIVE AccumulateMsb(_, _, _, _, _)
AccumulateMsb(rawUnsigned, data, field, i, oob) ==
    IF i >= field.byteCount THEN rawUnsigned
    ELSE AccumulateMsb(
            ShiftIn(rawUnsigned, DataByte(data, field.startByte + i, oob)),
            data, field, i + 1, oob)

RECURSIVE AccumulateLsb(_, _, _, _, _)
AccumulateLsb(rawUnsigned, data, field, i, oob) ==
    IF i < 0 THEN rawUnsigned
    ELSE AccumulateLsb(
            ShiftIn(rawUnsigned, DataByte(data, field.startByte + i, oob)),
            data, field, i - 1, oob)

ExtractRawValue(data, field, oob) ==
    LET rawUnsigned ==
            IF field.byteOrder = "MSB_FIRST"
            THEN AccumulateMsb(0, data, field, 0, oob)
            ELSE AccumulateLsb(0, data, field, field.byteCount - 1, oob)
    IN  CASE field.dataType = "INT8" -> S8(rawUnsigned)
          [] field.dataType = "INT16" -> S16(rawUnsigned)
          [] OTHER -> rawUnsigned

\* The indices of frame.data that extractRawValue reads for a field
FieldReads(field) ==
    {field.startByte + i : i \in 0..(field.byteCount - 1)}

SetBit(mask, bit) == BitOr(mask, bit)
ClearBit(mask, bit) == BitAnd(mask, 255 - bit)

\* A door write that replaces the whole bitmask by the one bit.
DoorWriteOverwrite(doors, bit, value) == IF value # 0 THEN bit ELSE 0

DoorWrite(doors, bit, value) ==
    IF value # 0 THEN SetBit(doors, bit) ELSE ClearBit(doors, bit)

WriteToGlobalData(g, target, value, now) ==
    CASE target = "STEERING" -> [g EXCEPT !.currentSteer = S16(value)]
      [] target = "ENGINE_RPM" -> [g EXCEPT !.engineRPM = U16(value)]
      [] target = "VEHICLE_SPEED" -> [g EXCEPT !.vehicleSpeed = U8(value)]
      [] target = "FUEL_LEVEL" -> [g EXCEPT !.fuelLevel = U8(value)]
      [] target = "ODOMETER" -> [g EXCEPT !.currentOdo = value]
      [] target = "VOLTAGE" -> [g EXCEPT !.voltBat = value]
      [] target = "TEMPERATURE" -> [g EXCEPT !.tempExt = S8(value)]
      [] target = "DTE" -> [g EXCEPT !.dteValue = S16(value)]
      [] target = "FUEL_CONS_INST" ->
            [g EXCEPT !.fuelConsumptionInst = U16(value)]
      [] target = "FUEL_CONS_AVG" ->
            [g EXCEPT !.fuelConsumptionAvg = U16(value)]
      [] target = "DOOR_DRIVER" ->
            [g EXCEPT !.currentDoors = DoorWrite(g.currentDoors, 128, value)]
      [] target = "DOOR_PASSENGER" ->
            [g EXCEPT !.currentDoors = DoorWrite(g.currentDoors, 64, value)]
      [] target = "DOOR_REAR_LEFT" ->
            [g EXCEPT !.currentDoors = DoorWrite(g.currentDoors, 32, value)]
      [] target = "DOOR_REAR_RIGHT" ->
            [g EXCEPT !.currentDoors = DoorWrite(g.currentDoors, 16, value)]
      [] target = "DOOR_BOOT" ->
            [g EXCEPT !.currentDoors = DoorWrite(g.currentDoors, 8, value)]
      [] target = "INDICATOR_LEFT" ->
            IF value # 0 THEN [g EXCEPT !.lastLeftIndicatorTime = now] ELSE g
      [] target = "INDICATOR_RIGHT" ->
            IF value # 0 THEN [g EXCEPT !.lastRightIndicatorTime = now] ELSE g
      [] target = "HEADLIGHTS" -> [g EXCEPT !.headlightsOn = (value # 0)]
      [] target = "HIGH_BEAM" -> [g EXCEPT !.highBeamOn = (value # 0)]
      [] target = "PARKING_LIGHTS" ->
            [g EXCEPT !.parkingLightsOn = (value # 0)]
      [] OTHER -> g

\* The loop over config->fields of processFrame, from field i on
RECURSIVE ProcessFields(_, _, _, _, _, _)
ProcessFields(g, fields, i, data, now, oob) ==
    IF i > Len(fields) THEN g
    ELSE LET rawValue == ExtractRawValue(data, fields[i], oob)
             convertedValue == ApplyFormula(rawValue, fields[i])
         IN  ProcessFields(
                WriteToGlobalData(g, fields[i].target, convertedValue, now),
                fields, i + 1, data, now, oob)

\* Statistics that count every frame as processed.
CountFrameAlwaysProcessed(matched, processed, unknown) ==
    <<AddWrap32(processed, 1), IF matched THEN unknown ELSE AddWrap32(unknown, 1)>>

\* _unknownFrames++ on a miss, _framesProcessed++ on a match
CountFrame(matched, processed, unknown) ==
    IF matched THEN <<AddWrap32(processed, 1), unknown>>
    ELSE <<processed, AddWrap32(unknown, 1)>>

ProcessFrame(frames) ==
    \E frame \in frames, oob \in {0, 255} :
        /\ rxCount < MaxFrames
        /\ rxCount' = rxCount + 1
        /\ lastFrame' = frame
        /\ LET k == FindFrameConfig(profile, U16(frame.identifier))
               counts == CountFrame(k # 0, framesProcessed, unknownFrames)
           IN  /\ framesProcessed' = counts[1]
               /\ unknownFrames' = counts[2]
               /\ IF k = 0
                  THEN /\ ret' = FALSE
                       /\ readIdx' = {}
                       /\ UNCHANGED gd
                  ELSE
                    /\ gd' = ProcessFields(gd, profile.frames[k].fields, 1,
                                           frame.data, millis, oob)
                    /\ readIdx' = UNION {FieldReads(profile.frames[k].fields[i]) :
                                    i \in 1..Len(profile.frames[k].fields)}
                    /\ ret' = TRUE
        /\ UNCHANGED <<cmdVars, eqVars, encVars, fmlVars, radioTx, uartVars, millis, profile, loadVars,
                       schedVars, loopVars>>

-----------------------------------------------------------------------------
(* VehicleConfig.h string parsing helpers and                              *)
(* CanConfigProcessor.cpp: loadFromJson.  A file is a record whose kind   *)
(* is "nofile" (cannot be opened), "badjson" (does not parse) or "doc", a  *)
(* parsed document with name, isMock and frames, each frame                *)
(* [canId, fields], each field object [target, startByte, byteCount,       *)
(* byteOrder, dataType, formula, params].                                  *)

ParseDataType(str) == IF str \in DataTypes THEN str ELSE "UINT8"

\* A byte-order parser that takes the two orders for each other.
ParseByteOrderSwapped(str) ==
    IF str \in {"LE", "LITTLE_ENDIAN", "LSB_FIRST"} THEN "MSB_FIRST"
    ELSE "LSB_FIRST"

ParseByteOrder(str) ==
    IF str \in {"LE", "LITTLE_ENDIAN", "LSB_FIRST"} THEN "LSB_FIRST"
    ELSE "MSB_FIRST"

ParseFormulaType(str) == IF str \in FormulaTypes THEN str ELSE "NONE"

ParseOutputField(str) == IF str \in OutputFields THEN str ELSE "STEERING"

\* memset(field.params, 0); the first four array elements are copied
ParseParams(paramsArray) ==
    [i \in 1..4 |-> IF i <= Len(paramsArray) THEN paramsArray[i] ELSE 0]

ParseField(fieldObj) ==
    FieldConfig(ParseOutputField(fieldObj.target),
                U8(fieldObj.startByte), U8(fieldObj.byteCount),
                ParseByteOrder(fieldObj.byteOrder),
                ParseDataType(fieldObj.dataType),
                ParseFormulaType(fieldObj.formula),
                ParseParams(fieldObj.params))

ParseFrame(frameObj) ==
    [canId |-> U16(frameObj.canId),
     fields |-> [i \in 1..Len(frameObj.fields) |-> ParseField(frameObj.fields[i])]]

\* The profile the loader builds from a parsed document
LoadedProfile(doc) ==
    [name |-> doc.name, isMock |-> doc.isMock,
     frames |-> [i \in 1..Len(doc.frames) |-> ParseFrame(doc.frames[i])]]

\* A file that does not exist and a file that is not JSON
NoFile == [kind |-> "nofile", name |-> "", isMock |-> FALSE, frames |-> <<>>]

BadJson == [kind |-> "badjson", name |-> "", isMock |-> FALSE, frames |-> <<>>]

\* loadFromJson: the profile after the call and the value returned
LoadJsonResult(prof, doc) ==
    IF doc.kind \in {"nofile", "badjson"}
    THEN [profile |-> prof, ok |-> FALSE]
    ELSE [profile |-> LoadedProfile(doc),
          ok |-> Len(LoadedProfile(doc).frames) > 0]

LoadFromJson(docs) ==
    \E doc \in docs :
        /\ lastDoc' = doc
        /\ profile' = LoadJsonResult(profile, doc).profile
        /\ loadRet' = LoadJsonResult(profile, doc).ok
        /\ UNCHANGED <<cmdVars, eqVars, encVars, fmlVars, radioTx, uartVars, millis, gd,
                       framesProcessed, unknownFrames, rxVars, schedVars,
                       loopVars>>

-----------------------------------------------------------------------------
(* RadioSend.cpp: sendCanboxMessage *)

\* uint8_t sum = cmd + len; for (i < len) sum += data[i];
RECURSIVE SumBytes(_, _, _)
SumBytes(sum, data, i) ==
    IF i > Len(data) THEN sum
    ELSE SumBytes(U8(sum + data[i]), data, i + 1)

ChecksumNoXor(cmd, data) == SumBytes(U8(cmd + Len(data)), data, 1)

Checksum(cmd, data) ==
    BitXor(SumBytes(U8(cmd + Len(data)), data, 1), 255)

\* The bytes one call writes: header, command, length, payload, checksum
CanboxMessage(cmd, data) ==
    <<46, cmd, Len(data)>> \o data \o <<Checksum(cmd, data)>>

Payloads == UNION {[1..n -> ByteSamples] : n \in 0..MaxPayloadLen}

SendCanboxMessage ==
    \E cmd \in CmdSamples, data \in Payloads :
        /\ encCmd' = cmd
        /\ encData' = data
        /\ radioTx' = <<CanboxMessage(cmd, data)>>
        /\ UNCHANGED <<cmdVars, eqVars, uartVars, fmlVars, millis, gd, procVars, rxVars, loadVars,
                       schedVars, loopVars>>

-----------------------------------------------------------------------------
(* ConfigManager defaults *)

ConfigDefaults ==
    [steerOffset |-> 100, steerInvert |-> TRUE, steerScale |-> 4,
     indicatorTimeout |-> 500, rpmDivisor |-> 7, tankCapacity |-> 45,
     dteDivisor |-> 283]

-----------------------------------------------------------------------------
(* RadioSend.cpp: commands, masks, send intervals, message builders and    *)
(* processRadioUpdates                                                     *)

CMD_REMAINING_RANGE == 33
CMD_FUEL_CONSUMPTION == 34
CMD_FUEL_CONS_AVG == 35
CMD_DOOR_STATUS == 36
CMD_OUTSIDE_TEMP == 40
CMD_STEERING_WHEEL == 41
CMD_MULTI_FUNCTION == 125

FUEL_UNIT_L100KM == 2

SUBCMD_LIGHTS == 1
SUBCMD_SPEED == 3
SUBCMD_ODOMETER == 4
SUBCMD_RPM == 10

MASK_LIGHT_RIGHT_IND == 8
MASK_LIGHT_LEFT_IND == 16
MASK_LIGHT_HIGH_BEAM == 32
MASK_LIGHT_HEADLIGHTS == 64
MASK_LIGHT_PARKING == 128

STEERING_INTERVAL_MS == 200
LIGHTS_INTERVAL_MS == 200
DOOR_INTERVAL_MS == 250
RPM_INTERVAL_MS == 333
SPEED_INTERVAL_MS == 500
FUEL_CONS_INTERVAL_MS == 1000
FUEL_CONS_AVG_INTERVAL_MS == 5000
TEMP_INTERVAL_MS == 5000
RANGE_INTERVAL_MS == 5000
ODOMETER_INTERVAL_MS == 10000

MASK_DOOR_DRIVER == 128
MASK_DOOR_PASSENGER == 64
MASK_DOOR_REAR_LEFT == 16
MASK_DOOR_REAR_RIGHT == 32
MASK_DOOR_BOOT == 8

\* Statics whose last-sent payloads start at 0 instead of 0xFF.
RadioSendStaticsZero ==
    [lastSteeringTime |-> 0, lastLightsTime |-> 0, lastDoorTime |-> 0,
     lastRpmTime |-> 0, lastSpeedTime |-> 0, lastFuelConsTime |-> 0,
     lastFuelConsAvgTime |-> 0, lastTempTime |-> 0, lastRangeTime |-> 0,
     lastOdometerTime |-> 0, lastSentDoors |-> 0, lastSentLights |-> 0]

\* The timer variables and last-sent payloads as initialised
RadioSendStatics ==
    [lastSteeringTime |-> 0, lastLightsTime |-> 0, lastDoorTime |-> 0,
     lastRpmTime |-> 0, lastSpeedTime |-> 0, lastFuelConsTime |-> 0,
     lastFuelConsAvgTime |-> 0, lastTempTime |-> 0, lastRangeTime |-> 0,
     lastOdometerTime |-> 0, lastSentDoors |-> 255, lastSentLights |-> 255]

\* The low and high byte of a 16-bit value, byte k of a 32-bit value
LoByte(x) == x % 256
HiByte(x) == (x \div 256) % 256
ByteOf(x, k) == (x \div Pow2(8 * k)) % 256

SteeringAngleMessage(angle) ==
    CanboxMessage(CMD_STEERING_WHEEL, <<LoByte(S16(angle)), HiByte(S16(angle))>>)

RpmMessage(rpm) ==
    LET encoded == U16(rpm * 4)
    IN  CanboxMessage(CMD_MULTI_FUNCTION,
                      <<SUBCMD_RPM, LoByte(encoded), HiByte(encoded)>>)

SpeedMessage(speed) ==
    LET encoded == U16(speed * 100)
    IN  CanboxMessage(CMD_MULTI_FUNCTION,
                      <<SUBCMD_SPEED, LoByte(encoded), HiByte(encoded), 0, 0>>)

OdometerMessage(odo) ==
    CanboxMessage(CMD_MULTI_FUNCTION,
                  <<SUBCMD_ODOMETER, ByteOf(odo, 0), ByteOf(odo, 1),
                    ByteOf(odo, 2), 242, 8, 0, 0, 0, 0, 0, 0>>)

OutsideTempMessage(temp) ==
    LET encoded == U8((temp + 40) * 2)
    IN  CanboxMessage(CMD_OUTSIDE_TEMP,
                      <<0, 0, 0, 0, 0, encoded, 0, 0, 0, 0, 0, 0>>)

TripInfoMessage(range_km, avg_speed_01, elapsed_sec) ==
    CanboxMessage(CMD_REMAINING_RANGE,
                  <<HiByte(avg_speed_01), LoByte(avg_speed_01),
                    HiByte(elapsed_sec), LoByte(elapsed_sec),
                    HiByte(range_km), LoByte(range_km), 2>>)

FuelConsumptionMessage(consumption_01) ==
    CanboxMessage(CMD_FUEL_CONSUMPTION,
                  <<FUEL_UNIT_L100KM, HiByte(consumption_01),
                    LoByte(consumption_01)>>)

FuelConsumptionAvgMessage(consumption_01) ==
    CanboxMessage(CMD_FUEL_CONS_AVG,
                  <<FUEL_UNIT_L100KM, HiByte(consumption_01),
                    LoByte(consumption_01)>>)

LightsMessage(lightMask) ==
    CanboxMessage(CMD_MULTI_FUNCTION, <<SUBCMD_LIGHTS, lightMask>>)

DoorCommand(doorMask) == CanboxMessage(CMD_DOOR_STATUS, <<doorMask>>)

\* An elapsed-time test that compares the clock with the absolute
\* deadline last + interval, both unsigned.
ElapsedAtLeastDeadline(now, last, interval) ==
    LET deadline == AddWrap32(last, interval)
    IN  \/ now < 0 /\ deadline >= 0
        \/ (now < 0) = (deadline < 0) /\ now >= deadline

\* now - last >= interval on unsigned long (the operands are held as
\* 32-bit patterns; a negative pattern is a difference of 2^31 or more)
ElapsedAtLeast(now, last, interval) ==
    LET d == SubWrap32(now, last) IN d < 0 \/ d >= interval

\* now - last < timeout on unsigned long
ElapsedBelow(now, last, timeout) ==
    LET d == SubWrap32(now, last) IN d >= 0 /\ d < timeout

\* A periodic test that fires only after the interval is exceeded.
PeriodicDueStrict(now, last, interval) ==
    LET d == SubWrap32(now, last) IN d < 0 \/ d > interval

PeriodicDue(now, last, interval) == ElapsedAtLeast(now, last, interval)

\* An on-change test that ignores the payload and keeps the floor only.
ChangeOrFloorDueFloorOnly(payload, lastSent, now, last, floor) ==
    ElapsedAtLeast(now, last, floor)

ChangeOrFloorDue(payload, lastSent, now, last, floor) ==
    payload # lastSent \/ ElapsedAtLeast(now, last, floor)

\* An indicator test that still reports activity at exactly the timeout.
IndicatorActiveInclusive(now, lastIndicatorTime, indTimeout) ==
    ElapsedBelow(now, lastIndicatorTime, indTimeout + 1)

IndicatorActive(now, lastIndicatorTime, indTimeout) ==
    ElapsedBelow(now, lastIndicatorTime, indTimeout)

SteeringAngle(g, cfg) ==
    LET centered == AddWrap32(g.currentSteer, cfg.steerOffset)
        angleRAV4 == DivI32(MulWrap32(centered, cfg.steerScale), 100)
    IN  IF cfg.steerInvert THEN NegWrap32(angleRAV4) ELSE angleRAV4

DoorStatus(currentDoors) ==
    (IF BitAnd(currentDoors, 128) # 0 THEN MASK_DOOR_DRIVER ELSE 0)
    + (IF BitAnd(currentDoors, 64) # 0 THEN MASK_DOOR_PASSENGER ELSE 0)
    + (IF BitAnd(currentDoors, 32) # 0 THEN MASK_DOOR_REAR_LEFT ELSE 0)
    + (IF BitAnd(currentDoors, 16) # 0 THEN MASK_DOOR_REAR_RIGHT ELSE 0)
    + (IF BitAnd(currentDoors, 8) # 0 THEN MASK_DOOR_BOOT ELSE 0)

LightStatus(g, cfg, now) ==
    LET indTimeout == cfg.indicatorTimeout
        leftActive == IndicatorActive(now, g.lastLeftIndicatorTime, indTimeout)
        rightActive == IndicatorActive(now, g.lastRightIndicatorTime, indTimeout)
    IN  (IF rightActive THEN MASK_LIGHT_RIGHT_IND ELSE 0)
        + (IF leftActive THEN MASK_LIGHT_LEFT_IND ELSE 0)
        + (IF g.highBeamOn THEN MASK_LIGHT_HIGH_BEAM ELSE 0)
        + (IF g.headlightsOn THEN MASK_LIGHT_HEADLIGHTS ELSE 0)
        + (IF g.parkingLightsOn THEN MASK_LIGHT_PARKING ELSE 0)

\* RadioSerial.read(): the next pending byte, or -1 (0xFF once stored in
\* a uint8_t) when nothing is pending
SerialRead(rx) ==
    [byte |-> IF Len(rx) > 0 THEN rx[1] ELSE 255,
     rx |-> IF Len(rx) > 0 THEN Tail(rx) ELSE rx]

\* n calls of RadioSerial.read() whose results are dropped
SerialSkip(rx, n) ==
    IF n >= Len(rx) THEN <<>> ELSE SubSeq(rx, n + 1, Len(rx))

\* transmettreVersPoste of the VW variant: header, command, length,
\* payload and the checksum 0xFF - (command + length + payload) on uint8_t
TransmettreVersPoste(commande, donnees) ==
    <<46, commande, Len(donnees)>> \o donnees
    \o <<U8(255 - SumBytes(U8(commande + Len(donnees)), donnees, 1))>>

\* Answers that leave the status query 0x90 unanswered.
LegacyAnswersNoStatus(cmd) ==
    IF cmd = 192 \/ cmd = 8
    THEN <<TransmettreVersPoste(241, <<2, 8, 16>>)>> ELSE <<>>

\* The answers of the VW variant to one inbound command
LegacyAnswers(cmd) ==
    (IF cmd = 192 \/ cmd = 8
     THEN <<TransmettreVersPoste(241, <<2, 8, 16>>)>> ELSE <<>>)
    \o (IF cmd = 144
        THEN <<TransmettreVersPoste(145, <<65, 2>>)>> ELSE <<>>)

RECURSIVE LegacyHandshake(_)
RECURSIVE Handshake(_)

\* handshake() of the VW variant: what is left unread in rx and the
\* frames written to tx.  After a header byte it reads the command and
\* the length, drops length + 1 further bytes and answers the command.
LegacyHandshake(rx) ==
    IF Len(rx) = 0 THEN [rx |-> rx, tx |-> <<>>]
    ELSE IF rx[1] = 46
         THEN LET cmd == SerialRead(Tail(rx))
                  len == SerialRead(cmd.rx)
                  next == LegacyHandshake(SerialSkip(len.rx, len.byte + 1))
              IN  [rx |-> next.rx, tx |-> LegacyAnswers(cmd.byte) \o next.tx]
         ELSE LegacyHandshake(Tail(rx))

\* A handshake that answers the head unit as the VW variant does.
HandshakeAnswering(rx) == LegacyHandshake(rx)

\* handshake() of the RAV4 variant: every pending byte is read and dropped
Handshake(rx) ==
    IF Len(rx) > 0 THEN Handshake(Tail(rx)) ELSE [rx |-> rx, tx |-> <<>>]

\* One section of processRadioUpdates: the frame it sends, if it is due
Section(due, message) == IF due THEN <<message>> ELSE <<>>

\* A section that never records when it sent.
StampKept(due, now, last) == last

\* lastXTime = now inside a section that sent
Stamp(due, now, last) == IF due THEN now ELSE last

\* The body of processRadioUpdates at clock value millis
RadioUpdatesBody ==
    LET now == millis
        steerDue == PeriodicDue(now, rs.lastSteeringTime, STEERING_INTERVAL_MS)
        doorStatus == DoorStatus(gd.currentDoors)
        doorDue == ChangeOrFloorDue(doorStatus, rs.lastSentDoors, now,
                                    rs.lastDoorTime, DOOR_INTERVAL_MS)
        lightStatus == LightStatus(gd, config, now)
        lightsDue == ChangeOrFloorDue(lightStatus, rs.lastSentLights, now,
                                      rs.lastLightsTime, LIGHTS_INTERVAL_MS)
        rpmDue == PeriodicDue(now, rs.lastRpmTime, RPM_INTERVAL_MS)
        speedDue == PeriodicDue(now, rs.lastSpeedTime, SPEED_INTERVAL_MS)
        fuelDue == PeriodicDue(now, rs.lastFuelConsTime, FUEL_CONS_INTERVAL_MS)
        fuelAvgDue == PeriodicDue(now, rs.lastFuelConsAvgTime,
                                  FUEL_CONS_AVG_INTERVAL_MS)
        tempDue == PeriodicDue(now, rs.lastTempTime, TEMP_INTERVAL_MS)
        rangeDue == PeriodicDue(now, rs.lastRangeTime, RANGE_INTERVAL_MS)
        odoDue == PeriodicDue(now, rs.lastOdometerTime, ODOMETER_INTERVAL_MS)
    IN  /\ radioRx' = Handshake(radioRx).rx
        /\ radioRead' = SubSeq(radioRx, 1, Len(radioRx) - Len(radioRx'))
        /\ radioTx' =
              Handshake(radioRx).tx
              \o Section(steerDue, SteeringAngleMessage(SteeringAngle(gd, config)))
              \o Section(doorDue, DoorCommand(doorStatus))
              \o Section(lightsDue, LightsMessage(lightStatus))
              \o Section(rpmDue, RpmMessage(gd.engineRPM))
              \o Section(speedDue, SpeedMessage(gd.vehicleSpeed))
              \o Section(fuelDue, FuelConsumptionMessage(gd.fuelConsumptionInst))
              \o Section(fuelAvgDue,
                         FuelConsumptionAvgMessage(gd.fuelConsumptionAvg))
              \o Section(tempDue, OutsideTempMessage(gd.tempExt))
              \o Section(rangeDue,
                         TripInfoMessage(U16(gd.dteValue), gd.averageSpeed,
                                         gd.elapsedTime))
              \o Section(odoDue, OdometerMessage(gd.currentOdo))
        /\ rs' = [lastSteeringTime |-> Stamp(steerDue, now, rs.lastSteeringTime),
                  lastLightsTime |-> Stamp(lightsDue, now, rs.lastLightsTime),
                  lastDoorTime |-> Stamp(doorDue, now, rs.lastDoorTime),
                  lastRpmTime |-> Stamp(rpmDue, now, rs.lastRpmTime),
                  lastSpeedTime |-> Stamp(speedDue, now, rs.lastSpeedTime),
                  lastFuelConsTime |-> Stamp(fuelDue, now, rs.lastFuelConsTime),
                  lastFuelConsAvgTime |->
                      Stamp(fuelAvgDue, now, rs.lastFuelConsAvgTime),
                  lastTempTime |-> Stamp(tempDue, now, rs.lastTempTime),
                  lastRangeTime |-> Stamp(rangeDue, now, rs.lastRangeTime),
                  lastOdometerTime |-> Stamp(odoDue, now, rs.lastOdometerTime),
                  lastSentDoors |->
                      IF doorDue THEN doorStatus ELSE rs.lastSentDoors,
                  lastSentLights |->
                      IF lightsDue THEN lightStatus ELSE rs.lastSentLights]

\* One of the calls of processRadioUpdates the model counts
RadioUpdatesCall ==
    /\ tickCount < MaxTicks
    /\ tickCount' = tickCount + 1
    /\ RadioUpdatesBody

ProcessRadioUpdates ==
    /\ RadioUpdatesCall
    /\ UNCHANGED <<cmdVars, eqVars, encVars, fmlVars, millis, gd, procVars, rxVars,
                   loadVars, config, loopVars>>

\* The head unit sends bytes: they wait in the UART receive buffer
RadioReceive(chunks) ==
    \E bytes \in chunks :
        /\ Len(radioRx) + Len(bytes) <= MaxInbound
        /\ radioRx' = radioRx \o bytes
        /\ UNCHANGED <<cmdVars, eqVars, radioRead, encVars, fmlVars, radioTx, millis, gd, procVars,
                       rxVars, loadVars, schedVars, loopVars>>

\* handshake() of the VW variant, called on its own
LegacyHandshakeCall ==
    /\ radioRx' = LegacyHandshake(radioRx).rx
    /\ radioRead' = SubSeq(radioRx, 1, Len(radioRx) - Len(radioRx'))
    /\ radioTx' = LegacyHandshake(radioRx).tx
    /\ UNCHANGED <<cmdVars, eqVars, encVars, fmlVars, millis, gd, procVars, rxVars,
                   loadVars, schedVars, loopVars>>

\* The millisecond clock moves on to a later instant between two calls:
\* a uint32_t that advances by less than 2^31 and may wrap to 0
ClockAdvance(instants) ==
    \E t \in instants :
        /\ SubWrap32(t, millis) > 0
        /\ millis' = t
        /\ UNCHANGED <<cmdVars, eqVars, encVars, fmlVars, radioTx, uartVars, gd, procVars, rxVars,
                       loadVars, schedVars, loopVars>>

-----------------------------------------------------------------------------
(* MockDataGenerator.cpp *)

MockBound(field, minValue, maxValue, typicalValue, cycleStep) ==
    [field |-> field, minValue |-> minValue, maxValue |-> maxValue,
     typicalValue |-> typicalValue, cycleStep |-> cycleStep]

\* _defaultBounds
MockDefaultBounds ==
    <<MockBound("STEERING", -5400, 5400, 0, 100),
      MockBound("ENGINE_RPM", 800, 6000, 2500, 50),
      MockBound("VEHICLE_SPEED", 0, 120, 60, 2),
      MockBound("VOLTAGE", 125, 145, 140, 1),
      MockBound("TEMPERATURE", 70, 95, 85, 1),
      MockBound("FUEL_CONS_INST", 30, 120, 65, 3),
      MockBound("ODOMETER", 85000, 85100, 85050, 1),
      MockBound("FUEL_LEVEL", 10, 45, 30, 0),
      MockBound("DTE", 200, 400, 350, 0),
      MockBound("FUEL_CONS_AVG", 55, 75, 65, 0)>>

\* The entry of _defaultBounds for a field, 0 when it has none
MockBoundIndex(field) ==
    LET hits == {i \in 1..Len(MockDefaultBounds) :
                    MockDefaultBounds[i].field = field}
    IN  IF hits = {} THEN 0 ELSE CHOOSE i \in hits : TRUE

\* MockDataGenerator(): _lastUpdate 0, 20 Hz, values 0, directions 1; the
\* static lastIndicatorToggle of update() starts at 0
MockConstructed ==
    [lastUpdate |-> 0, updateInterval |-> 50,
     currentValues |-> [f \in OutputFields |-> 0],
     directions |-> [f \in OutputFields |-> 1],
     lastIndicatorToggle |-> 0]

\* MockDataGenerator::writeToGlobalData
MockWriteToGlobalData(g, v, now) ==
    [g EXCEPT
        !.currentSteer = S16(v["STEERING"]),
        !.engineRPM = U16(v["ENGINE_RPM"]),
        !.vehicleSpeed = U8(v["VEHICLE_SPEED"]),
        !.fuelLevel = U8(v["FUEL_LEVEL"]),
        !.currentOdo = v["ODOMETER"],
        !.voltBat = v["VOLTAGE"],
        !.tempExt = S8(v["TEMPERATURE"]),
        !.dteValue = S16(v["DTE"]),
        !.fuelConsumptionInst = U16(v["FUEL_CONS_INST"]),
        !.fuelConsumptionAvg = U16(v["FUEL_CONS_AVG"]),
        !.currentDoors =
            (IF v["DOOR_DRIVER"] # 0 THEN 128 ELSE 0)
            + (IF v["DOOR_PASSENGER"] # 0 THEN 64 ELSE 0)
            + (IF v["DOOR_REAR_LEFT"] # 0 THEN 32 ELSE 0)
            + (IF v["DOOR_REAR_RIGHT"] # 0 THEN 16 ELSE 0)
            + (IF v["DOOR_BOOT"] # 0 THEN 8 ELSE 0),
        !.lastLeftIndicatorTime =
            IF v["INDICATOR_LEFT"] # 0 THEN now ELSE @,
        !.lastRightIndicatorTime =
            IF v["INDICATOR_RIGHT"] # 0 THEN now ELSE @,
        !.headlightsOn = (v["HEADLIGHTS"] # 0),
        !.highBeamOn = (v["HIGH_BEAM"] # 0),
        !.parkingLightsOn = (v["PARKING_LIGHTS"] # 0)]

\* MockDataGenerator::begin: typical values, headlights on
MockBeginValues ==
    [f \in OutputFields |->
        IF MockBoundIndex(f) # 0
        THEN MockDefaultBounds[MockBoundIndex(f)].typicalValue
        ELSE IF f = "HEADLIGHTS" THEN 1 ELSE 0]

MockBegin(m) ==
    [m EXCEPT !.currentValues = MockBeginValues,
              !.directions = [f \in OutputFields |-> 1]]

\* One oscillation step of a field: value and direction after it
MockOscillate(b, value, direction) ==
    LET moved == AddWrap32(value, b.cycleStep * direction)
    IN  IF b.cycleStep = 0 THEN <<value, direction>>
        ELSE IF moved >= b.maxValue THEN <<b.maxValue, -1>>
        ELSE IF moved <= b.minValue THEN <<b.minValue, 1>>
        ELSE <<moved, direction>>

\* now - _lastUpdate < _updateInterval: update() returns at once
MockUpdateSkipped(now, lastUpdate, updateInterval) ==
    ElapsedBelow(now, lastUpdate, updateInterval)

\* MockDataGenerator::update: the generator after the call
MockUpdated(m, now) ==
    IF MockUpdateSkipped(now, m.lastUpdate, m.updateInterval) THEN m
    ELSE
      LET osc(f) == MockOscillate(MockDefaultBounds[MockBoundIndex(f)],
                                  m.currentValues[f], m.directions[f])
          toggle == ElapsedAtLeast(now, m.lastIndicatorToggle, 501)
      IN  [lastUpdate |-> now,
           updateInterval |-> m.updateInterval,
           currentValues |->
               [f \in OutputFields |->
                   IF MockBoundIndex(f) # 0 THEN osc(f)[1]
                   ELSE IF f = "INDICATOR_LEFT" /\ toggle
                        THEN (IF m.currentValues[f] = 0 THEN 1 ELSE 0)
                        ELSE m.currentValues[f]],
           directions |->
               [f \in OutputFields |->
                   IF MockBoundIndex(f) # 0 THEN osc(f)[2]
                   ELSE m.directions[f]],
           lastIndicatorToggle |->
               IF toggle THEN now ELSE m.lastIndicatorToggle]

\* MockDataGenerator::update: GlobalData after the call
MockUpdateGlobalData(m, g, now) ==
    IF MockUpdateSkipped(now, m.lastUpdate, m.updateInterval) THEN g
    ELSE MockWriteToGlobalData(g, MockUpdated(m, now).currentValues, now)

-----------------------------------------------------------------------------
(* CanCapture.cpp: handleCanCapture, the decoder the main loop calls *)

StatusBit(status, n) == (status \div Pow2(n)) % 2 = 1

HandleCanCapture(g, frame, cfg, now) ==
    LET d == frame.data
        be16(i) == d[i + 1] * 256 + d[i + 2]
        status == d[1] * 65536 + d[2] * 256 + d[3]
    IN  CASE frame.identifier = 2 ->
                [g EXCEPT !.currentSteer = S16(be16(1))]
          [] frame.identifier = 384 ->
                [g EXCEPT !.engineRPM = U16(be16(0) \div cfg.rpmDivisor)]
          [] frame.identifier = 644 ->
                [g EXCEPT !.vehicleSpeed = U8(U16(be16(0) \div 100))]
          [] frame.identifier = 1477 ->
                [g EXCEPT !.fuelLevel = U8(Map(d[1], 255, 0, 0, cfg.tankCapacity)),
                          !.currentOdo = d[2] * 65536 + d[3] * 256 + d[4]]
          [] frame.identifier = 1782 ->
                [g EXCEPT !.voltBat = d[1]]
          [] frame.identifier = 1361 ->
                [g EXCEPT !.tempExt = S8(d[1] - 40)]
          [] frame.identifier = 1549 ->
                [g EXCEPT
                    !.highBeamOn = StatusBit(status, 11),
                    !.headlightsOn = StatusBit(status, 17),
                    !.parkingLightsOn = StatusBit(status, 18),
                    !.lastLeftIndicatorTime =
                        IF StatusBit(status, 13) THEN now ELSE @,
                    !.lastRightIndicatorTime =
                        IF StatusBit(status, 14) THEN now ELSE @,
                    !.currentDoors =
                        (g.currentDoors % 2)
                        + (IF StatusBit(status, 20) THEN 128 ELSE 0)
                        + (IF StatusBit(status, 19) THEN 64 ELSE 0)
                        + (IF StatusBit(status, 21) THEN 32 ELSE 0)
                        + (IF StatusBit(status, 22) THEN 16 ELSE 0)
                        + (IF StatusBit(status, 23) THEN 8 ELSE 0)]
          [] frame.identifier = 1356 ->
                [g EXCEPT !.dteValue =
                              S16((be16(6) * 100) \div cfg.dteDivisor)]
          [] frame.identifier = 1408 ->
                [g EXCEPT !.fuelConsumptionInst = d[3] % 128,
                          !.fuelConsumptionAvg = d[5]]
          [] OTHER -> g

-----------------------------------------------------------------------------
(* CanConfigProcessor::begin, SerialCommand.cpp: CAN LOAD and CAN RELOAD,  *)
(* GlobalData.h: resetVehicleData                                          *)

\* _mockMode = _profile.isMock after a successful load in begin()
BeginMode(loaded, mode) == loaded.isMock

\* begin(): mount, then /vehicle.json, then /NissanJukeF15.json; the
\* profile, _mockMode and the value returned
BeginResult(prof, mode, mountOk, vehicleJson, jukeJson) ==
    IF ~mountOk THEN [profile |-> prof, mockMode |-> TRUE, ok |-> FALSE]
    ELSE
      LET r1 == IF vehicleJson.kind = "nofile"
                THEN [profile |-> prof, ok |-> FALSE]
                ELSE LoadJsonResult(prof, vehicleJson)
          r2 == IF jukeJson.kind = "nofile"
                THEN [profile |-> r1.profile, ok |-> FALSE]
                ELSE LoadJsonResult(r1.profile, jukeJson)
      IN  IF r1.ok
          THEN [profile |-> r1.profile,
                mockMode |-> BeginMode(r1.profile, mode), ok |-> TRUE]
          ELSE IF r2.ok
          THEN [profile |-> r2.profile,
                mockMode |-> BeginMode(r2.profile, mode), ok |-> TRUE]
          ELSE [profile |-> r2.profile, mockMode |-> TRUE, ok |-> FALSE]

\* canLoad(): nothing when the file does not exist, else loadFromJson;
\* _mockMode is not assigned
CanLoadResult(prof, mode, file) ==
    IF file.kind = "nofile"
    THEN [profile |-> prof, mockMode |-> mode, ok |-> FALSE]
    ELSE [profile |-> LoadJsonResult(prof, file).profile,
          mockMode |-> mode,
          ok |-> LoadJsonResult(prof, file).ok]

\* resetVehicleData(): every vehicle datum back to its default
ResetVehicleData(g) == GlobalDataDefaults

SerialCommand(kind, mountOk, file, jukeJson) ==
    [kind |-> kind, mountOk |-> mountOk, file |-> file, jukeJson |-> jukeJson]

-----------------------------------------------------------------------------
(* SerialCommand.cpp: the OTA commands *)

\* Largest firmware OTA START accepts: ESP.getFreeSketchSpace() - 0x1000
MaxFirmware == 3

\* A 0-terminated text holding an MD5: its length, the value its hex
\* digits spell and whether they are written in upper case
Md5Text(len, hex, upper) == [len |-> len, hex |-> hex, upper |-> upper]

\* The empty text: otaExpectedMD5[0] = '\0', and a missing md5 argument
NoMd5 == Md5Text(0, 0, FALSE)

\* The digest MD5Builder computes, folded down to one byte
RECURSIVE Md5Digest(_)
Md5Digest(bytes) ==
    IF bytes = <<>> THEN 7
    ELSE (Md5Digest(SubSeq(bytes, 1, Len(bytes) - 1)) * 31
          + bytes[Len(bytes)]) % 251

\* otaMD5.calculate(); otaMD5.toString(): 32 lower-case hex digits
Md5ToString(bytes) == Md5Text(32, Md5Digest(bytes), FALSE)

\* The OTA statics after construction; md5 holds the bytes added to
\* otaMD5 and givenMD5 the md5 argument of the last accepted OTA START
OtaStatics ==
    [inProgress |-> FALSE, expectedSize |-> 0, receivedSize |-> 0,
     expectedMD5 |-> NoMd5, md5 |-> <<>>, givenMD5 |-> NoMd5]

\* What a command handler leaves behind: the OTA statics, the image to
\* boot, the answer and whether ESP.restart() was called
OtaResult(o, fw, answer, restart) ==
    [ota |-> o, firmware |-> fw, reply |-> answer, restart |-> restart]

\* otaAbort()
OtaAbort(o) ==
    [o EXCEPT !.inProgress = FALSE, !.receivedSize = 0,
              !.expectedSize = 0, !.expectedMD5 = NoMd5]

\* otaStart: the text kept in otaExpectedMD5
OtaStoredMd5(md5) ==
    IF md5.len = 32 THEN Md5Text(32, md5.hex, FALSE) ELSE NoMd5

\* otaStart(size, md5); beginOk is the value of Update.begin(size)
OtaStart(o, fw, size, md5, beginOk) ==
    IF o.inProgress THEN OtaResult(o, fw, "ERROR", FALSE)
    ELSE IF size = 0 THEN OtaResult(o, fw, "ERROR", FALSE)
    ELSE IF size > MaxFirmware THEN OtaResult(o, fw, "ERROR", FALSE)
    ELSE IF ~beginOk
    THEN OtaResult([o EXCEPT !.expectedMD5 = OtaStoredMd5(md5)], fw,
                   "ERROR", FALSE)
    ELSE OtaResult([inProgress |-> TRUE, expectedSize |-> size,
                    receivedSize |-> 0,
                    expectedMD5 |-> OtaStoredMd5(md5), md5 |-> <<>>,
                    givenMD5 |-> md5],
                   fw, "OK", FALSE)

\* An otaData without the overflow test.
OtaDataUnchecked(o, fw, bytes, writeOk) ==
    IF ~o.inProgress THEN OtaResult(o, fw, "ERROR", FALSE)
    ELSE IF Len(bytes) = 0 THEN OtaResult(o, fw, "ERROR", FALSE)
    ELSE IF ~writeOk THEN OtaResult(OtaAbort(o), fw, "ERROR", FALSE)
    ELSE OtaResult([o EXCEPT !.md5 = @ \o bytes,
                             !.receivedSize = @ + Len(bytes)],
                   fw, "OK", FALSE)

\* otaData(base64Data): bytes is what base64Decode delivers, writeOk
\* whether Update.write wrote all of it
OtaData(o, fw, bytes, writeOk) ==
    IF ~o.inProgress THEN OtaResult(o, fw, "ERROR", FALSE)
    ELSE IF Len(bytes) = 0 THEN OtaResult(o, fw, "ERROR", FALSE)
    ELSE IF o.receivedSize + Len(bytes) > o.expectedSize
    THEN OtaResult(OtaAbort(o), fw, "ERROR", FALSE)
    ELSE IF ~writeOk THEN OtaResult(OtaAbort(o), fw, "ERROR", FALSE)
    ELSE OtaResult([o EXCEPT !.md5 = @ \o bytes,
                             !.receivedSize = @ + Len(bytes)],
                   fw, "OK", FALSE)

\* An otaEnd that never looks at the MD5.
OtaMd5MismatchNever(o) == FALSE

\* otaEnd: if (otaExpectedMD5[0]) ... calculatedMD5 != otaExpectedMD5
OtaMd5Mismatch(o) ==
    o.expectedMD5.len # 0 /\ Md5ToString(o.md5) # o.expectedMD5

\* otaEnd(); endOk is the value of Update.end(true)
OtaEnd(o, fw, endOk) ==
    IF ~o.inProgress THEN OtaResult(o, fw, "ERROR", FALSE)
    ELSE IF o.receivedSize # o.expectedSize
    THEN OtaResult(OtaAbort(o), fw, "ERROR", FALSE)
    ELSE IF OtaMd5Mismatch(o)
    THEN OtaResult(OtaAbort(o), fw, "ERROR", FALSE)
    ELSE IF ~endOk THEN OtaResult(OtaAbort(o), fw, "ERROR", FALSE)
    ELSE OtaResult([o EXCEPT !.inProgress = FALSE], "new", "OK", TRUE)

\* isOtaInProgress()
IsOtaInProgress(o) == o.inProgress

\* An OTA command line: START <size> [md5], DATA <base64>, END, ABORT;
\* flashOk is what the Update library answers
OtaCommand(kind, size, md5, bytes, flashOk) ==
    [kind |-> kind, size |-> size, md5 |-> md5, bytes |-> bytes,
     flashOk |-> flashOk]

OtaKinds == {"OTA_START", "OTA_DATA", "OTA_END", "OTA_ABORT"}

\* handleOtaCommand
HandleOtaCommand(o, fw, cmd) ==
    CASE cmd.kind = "OTA_START" ->
            OtaStart(o, fw, cmd.size, cmd.md5, cmd.flashOk)
      [] cmd.kind = "OTA_DATA" -> OtaData(o, fw, cmd.bytes, cmd.flashOk)
      [] cmd.kind = "OTA_END" -> OtaEnd(o, fw, cmd.flashOk)
      [] cmd.kind = "OTA_ABORT" -> OtaResult(OtaAbort(o), fw, "OTA", FALSE)
      [] OTHER -> OtaResult(o, fw, "none", FALSE)

-----------------------------------------------------------------------------
(* SerialCommand.cpp: the CAN UPLOAD commands.  A JSON text is modelled    *)
(* as the members of one object, one character per member: "N" is a       *)
(* "name" member holding a string, "n" a "name" member holding a number,   *)
(* "F" a "frames" member holding an array, "f" a "frames" member holding   *)
(* a number, "x" a character that breaks the syntax.                       *)

CAN_UPLOAD_MAX_SIZE == 8192

\* uploadBuffer: nullptr, or a block and the bytes received into it
NoBuffer == [allocated |-> FALSE, bytes |-> <<>>]

\* The CAN UPLOAD statics after construction; highWater is the end of
\* the part of the block that base64_decode_block has written to since
\* the block was allocated, overrun records that it wrote past the end of
\* the block
UploadStatics ==
    [inProgress |-> FALSE, filename |-> "", expectedSize |-> 0,
     receivedSize |-> 0, buffer |-> NoBuffer, highWater |-> 0,
     overrun |-> FALSE]

\* The files of the model and an empty file system
FileNames == {"/vehicle.json", "/a.json"}
NoFiles == [n \in FileNames |-> [exists |-> FALSE, text |-> <<>>]]

\* uploadFilename: the name with a leading '/'
UploadPath(filename) ==
    IF filename.slash THEN filename.text
    ELSE CASE filename.text = "vehicle.json" -> "/vehicle.json"
           [] filename.text = "a.json" -> "/a.json"
           [] OTHER -> filename.text

\* deserializeJson fails: an empty text or a broken one
JsonError(text) ==
    text = <<>> \/ \E i \in 1..Len(text) : text[i] = "x"

\* The last member of the text that is one of the two given
RECURSIVE LastMember(_, _)
LastMember(text, members) ==
    IF text = <<>> THEN "none"
    ELSE IF text[Len(text)] \in members THEN text[Len(text)]
    ELSE LastMember(SubSeq(text, 1, Len(text) - 1), members)

\* doc["name"].is<const char*>() and doc["frames"].is<JsonArray>()
NameIsString(text) == LastMember(text, {"N", "n"}) = "N"
FramesIsArray(text) == LastMember(text, {"F", "f"}) = "F"

\* What a command handler leaves behind: the statics, the file system
\* and the first word of the answer
UploadResult(u, files, answer) ==
    [upload |-> u, fs |-> files, reply |-> answer]

\* canUploadAbort()
CanUploadAbort(u) ==
    [u EXCEPT !.buffer = NoBuffer, !.inProgress = FALSE,
              !.receivedSize = 0, !.expectedSize = 0]

\* canUploadStart: "Cancel any previous upload" frees the buffer only
UploadCancelled(u) == [u EXCEPT !.buffer = NoBuffer]

\* canUploadStart(filename, size); mallocOk: malloc returned a block
CanUploadStart(u, files, filename, size, mallocOk) ==
    IF size = 0 \/ size > CAN_UPLOAD_MAX_SIZE
    THEN UploadResult(UploadCancelled(u), files, "ERROR")
    ELSE IF ~mallocOk
    THEN UploadResult(UploadCancelled(u), files, "ERROR")
    ELSE UploadResult([inProgress |-> TRUE,
                       filename |-> UploadPath(filename),
                       expectedSize |-> size, receivedSize |-> 0,
                       buffer |-> [allocated |-> TRUE, bytes |-> <<>>],
                       highWater |-> 0, overrun |-> u.overrun],
                      files, "OK")

\* canUploadData(base64Data): base64Decode writes all of bytes at
\* uploadBuffer + uploadReceivedSize and answers 0 when there are none
\* or more than remaining; the block has one byte more than expectedSize
CanUploadData(u, files, bytes) ==
    IF ~u.inProgress \/ ~u.buffer.allocated
    THEN UploadResult(u, files, "ERROR")
    ELSE
      LET remaining == u.expectedSize - u.receivedSize
          end == u.receivedSize + Len(bytes)
          written == IF end > u.highWater THEN end ELSE u.highWater
      IN  IF Len(bytes) = 0 \/ Len(bytes) > remaining
          THEN UploadResult(
                   [u EXCEPT !.highWater = written,
                             !.overrun = @ \/ Len(bytes) > remaining + 1],
                   files, "ERROR")
          ELSE UploadResult(
                   [u EXCEPT !.buffer.bytes = @ \o bytes,
                             !.receivedSize = @ + Len(bytes),
                             !.highWater = written],
                   files, "OK")

\* canUploadEnd(); openOk: LittleFS.open(uploadFilename, "w") succeeded
CanUploadEnd(u, files, openOk) ==
    IF ~u.inProgress \/ ~u.buffer.allocated
    THEN UploadResult(u, files, "ERROR")
    ELSE IF JsonError(u.buffer.bytes)
    THEN UploadResult(CanUploadAbort(u), files, "ERROR")
    ELSE IF ~NameIsString(u.buffer.bytes) \/ ~FramesIsArray(u.buffer.bytes)
    THEN UploadResult(CanUploadAbort(u), files, "ERROR")
    ELSE IF ~openOk
    THEN UploadResult(CanUploadAbort(u), files, "ERROR")
    ELSE UploadResult(
             [u EXCEPT !.buffer = NoBuffer, !.inProgress = FALSE],
             [files EXCEPT ![u.filename] =
                 [exists |-> TRUE, text |-> u.buffer.bytes]],
             "OK")

\* A CAN UPLOAD command line: START <filename> <size>, DATA <base64>,
\* END, ABORT; allocOk is what malloc resp. LittleFS.open answers
UploadCommand(kind, filename, size, bytes, allocOk) ==
    [kind |-> kind, filename |-> filename, size |-> size, bytes |-> bytes,
     allocOk |-> allocOk]

\* handleCanCommand, the UPLOAD subcommands
HandleUploadCommand(u, files, cmd) ==
    CASE cmd.kind = "UPLOAD_START" ->
            CanUploadStart(u, files, cmd.filename, cmd.size, cmd.allocOk)
      [] cmd.kind = "UPLOAD_DATA" -> CanUploadData(u, files, cmd.bytes)
      [] cmd.kind = "UPLOAD_END" -> CanUploadEnd(u, files, cmd.allocOk)
      [] cmd.kind = "UPLOAD_ABORT" ->
            UploadResult(CanUploadAbort(u), files, "Upload")
      [] OTHER -> UploadResult(u, files, "none")

\* serialCommandProcess with one CAN UPLOAD command line pending
CanUploadCommand(commands) ==
    \E cmd \in commands :
        LET r == HandleUploadCommand(upload, fs, cmd)
        IN  /\ cmdCount < MaxUploadCommands
            /\ cmdCount' = cmdCount + 1
            /\ lastCmd' = cmd
            /\ upload' = r.upload
            /\ fs' = r.fs
            /\ reply' = r.reply
            /\ UNCHANGED <<eqVars, encVars, fmlVars, radioTx, uartVars, millis, gd,
                           procVars, rxVars, loadVars, schedVars, pc,
                           mockMode, lastCanMessageTime, mock, restarted,
                           ota, firmware, nvs>>

-----------------------------------------------------------------------------
(* SerialCommand.cpp: the CFG commands, and ConfigManager.cpp *)

\* The namespace "canbox": erased, or holding the seven saved values
NvsErased == [saved |-> FALSE, values |-> ConfigDefaults]

\* A configInit that stops after loadDefaults().
ConfigInitDefaults(store) == ConfigDefaults

\* configInit(): the defaults, then every key the namespace holds
ConfigInit(store) == IF store.saved THEN store.values ELSE ConfigDefaults

\* configSave()
ConfigSave(cfg, store) == [saved |-> TRUE, values |-> cfg]

\* What a CFG command leaves behind: the calibration in memory, the
\* namespace and the first word of the answer
CfgResult(cfg, store, answer) ==
    [config |-> cfg, nvs |-> store, reply |-> answer]

\* configReset(): loadDefaults(), prefs.clear(), configSave()
ConfigReset(cfg, store) ==
    CfgResult(ConfigDefaults, ConfigSave(ConfigDefaults, NvsErased), "OK")

\* cfgSet: tolower over the parameter name
ParamLower(param) ==
    CASE param \in {"steerOffset", "STEEROFFSET"} -> "steeroffset"
      [] param \in {"steerInvert"} -> "steerinvert"
      [] param \in {"steerScale"} -> "steerscale"
      [] param \in {"indTimeout"} -> "indtimeout"
      [] param \in {"rpmDiv", "RPMDIV"} -> "rpmdiv"
      [] param \in {"tankCap"} -> "tankcap"
      [] param \in {"dteDiv", "DTEDIV"} -> "dtediv"
      [] OTHER -> param

\* A range check that lets every value through.
CfgOutOfRangeNever(val, lo, hi) == FALSE

\* cfgSet: val < lo || val > hi
CfgOutOfRange(val, lo, hi) == val < lo \/ val > hi

\* cfgSet(param, value); val is atoi(value)
CfgSet(cfg, store, param, val) ==
    LET p == ParamLower(param)
    IN  CASE p = "steeroffset" ->
                IF CfgOutOfRange(val, -500, 500)
                THEN CfgResult(cfg, store, "ERROR")
                ELSE CfgResult([cfg EXCEPT !.steerOffset = S16(val)],
                               store, "OK")
          [] p = "steerinvert" ->
                CfgResult([cfg EXCEPT !.steerInvert = (val # 0)], store,
                          "OK")
          [] p = "steerscale" ->
                IF CfgOutOfRange(val, 1, 200)
                THEN CfgResult(cfg, store, "ERROR")
                ELSE CfgResult([cfg EXCEPT !.steerScale = U8(val)],
                               store, "OK")
          [] p = "indtimeout" ->
                IF CfgOutOfRange(val, 100, 2000)
                THEN CfgResult(cfg, store, "ERROR")
                ELSE CfgResult([cfg EXCEPT !.indicatorTimeout = U16(val)],
                               store, "OK")
          [] p = "rpmdiv" ->
                IF CfgOutOfRange(val, 1, 20)
                THEN CfgResult(cfg, store, "ERROR")
                ELSE CfgResult([cfg EXCEPT !.rpmDivisor = U8(val)],
                               store, "OK")
          [] p = "tankcap" ->
                IF CfgOutOfRange(val, 20, 100)
                THEN CfgResult(cfg, store, "ERROR")
                ELSE CfgResult([cfg EXCEPT !.tankCapacity = U8(val)],
                               store, "OK")
          [] p = "dtediv" ->
                IF CfgOutOfRange(val, 100, 500)
                THEN CfgResult(cfg, store, "ERROR")
                ELSE CfgResult([cfg EXCEPT !.dteDivisor = U16(val)],
                               store, "OK")
          [] OTHER -> CfgResult(cfg, store, "ERROR")

\* A CFG command line: SET <param> <value>, SAVE, RESET
CfgCommand(kind, param, val) == [kind |-> kind, param |-> param, val |-> val]

\* handleCfgCommand
HandleCfgCommand(cfg, store, cmd) ==
    CASE cmd.kind = "CFG_SET" -> CfgSet(cfg, store, cmd.param, cmd.val)
      [] cmd.kind = "CFG_SAVE" -> CfgResult(cfg, ConfigSave(cfg, store), "OK")
      [] cmd.kind = "CFG_RESET" -> ConfigReset(cfg, store)
      [] OTHER -> CfgResult(cfg, store, "none")

\* serialCommandProcess with one CFG command line pending
CfgCommandLine(commands) ==
    \E cmd \in commands :
        LET r == HandleCfgCommand(config, nvs, cmd)
        IN  /\ cmdCount < MaxCfgCommands
            /\ cmdCount' = cmdCount + 1
            /\ lastCmd' = cmd
            /\ config' = r.config
            /\ nvs' = r.nvs
            /\ reply' = r.reply
            /\ UNCHANGED <<eqVars, encVars, fmlVars, radioTx, uartVars, millis, gd,
                           procVars, rxVars, loadVars, rs, tickCount, pc,
                           mockMode, lastCanMessageTime, mock, restarted,
                           ota, firmware, upload, fs>>

\* A reboot: setup() calls configInit()
ConfigReboot ==
    /\ cmdCount < MaxCfgCommands
    /\ cmdCount' = cmdCount + 1
    /\ lastCmd' = CfgCommand("REBOOT", "", 0)
    /\ config' = ConfigInit(nvs)
    /\ reply' = "none"
    /\ UNCHANGED <<eqVars, encVars, fmlVars, radioTx, uartVars, millis, gd,
                   procVars, rxVars, loadVars, rs, tickCount, pc,
                   mockMode, lastCanMessageTime, mock, restarted,
                   ota, firmware, upload, fs, nvs>>

-----------------------------------------------------------------------------
(* main.cpp: loop().  One iteration is serialCommandProcess, the           *)
(* mode-dependent data acquisition and processRadioUpdates, in this order; *)
(* the clock does not advance inside an iteration.                         *)

CAN_TIMEOUT == 30000

\* A command that goes on to resetVehicleData after a failed load and
\* skips it after a successful one.
AfterSwitchSwapped(ok) == IF ok THEN "acquire" ELSE "reset"

\* Where control goes after the load part of CAN LOAD / CAN RELOAD
AfterSwitch(ok) == IF ok THEN "reset" ELSE "acquire"

\* The first word of the answer of CAN LOAD resp. CAN RELOAD
SwitchReply(kind, ok) ==
    IF ok THEN "OK" ELSE IF kind = "LOAD" THEN "ERROR" ELSE "No"

\* serialCommandProcess with at most one complete command line pending
LoopSerial(commands) ==
    \E cmd \in commands :
        LET r == CASE cmd.kind = "LOAD" ->
                        CanLoadResult(profile, mockMode, cmd.file)
                   [] cmd.kind = "RELOAD" ->
                        BeginResult(profile, mockMode, cmd.mountOk, cmd.file,
                                    cmd.jukeJson)
                   [] OTHER ->
                        [profile |-> profile, mockMode |-> mockMode,
                         ok |-> FALSE]
            switch == cmd.kind \in {"LOAD", "RELOAD"}
            o == HandleOtaCommand(ota, firmware, cmd)
        IN  /\ pc = "serial"
            /\ ~restarted
            /\ tickCount < MaxTicks
            /\ lastCmd' = cmd
            /\ profile' = r.profile
            /\ mockMode' = r.mockMode
            /\ loadRet' = IF switch THEN r.ok ELSE loadRet
            /\ lastDoc' = IF switch THEN cmd.file ELSE lastDoc
            /\ ota' = o.ota
            /\ firmware' = o.firmware
            /\ reply' = IF switch THEN SwitchReply(cmd.kind, r.ok)
                        ELSE o.reply
            /\ restarted' = o.restart
            /\ pc' = IF o.restart THEN "reboot" ELSE AfterSwitch(r.ok)
            /\ UNCHANGED <<eqVars, encVars, fmlVars, radioTx, uartVars, millis, gd,
                           framesProcessed, unknownFrames, rxVars, schedVars,
                           lastCanMessageTime, mock, upload, fs, nvs,
                           cmdCount>>

\* The rest of a successful CAN LOAD / CAN RELOAD: resetVehicleData()
LoopReset ==
    /\ pc = "reset"
    /\ gd' = ResetVehicleData(gd)
    /\ pc' = "acquire"
    /\ UNCHANGED <<cmdVars, eqVars, encVars, fmlVars, radioTx, uartVars, millis, procVars, rxVars,
                   loadVars, schedVars, mockMode, lastCanMessageTime, mock,
                   restarted, lastCmd>>

\* A producer choice that runs the generator whatever the mode.
ProducerAlwaysMock(mode) == "mock"

\* if (canProcessor.isMockMode()) ... else ...
Producer(mode) == IF mode THEN "mock" ELSE "bus"

\* A silence test that does not look at the battery voltage.
SilenceTimeoutAnyVoltage(now, lastMessage, voltBat) ==
    ElapsedAtLeast(now, lastMessage, CAN_TIMEOUT + 1)

\* now - lastCanMessageTime > CAN_TIMEOUT && voltBat > 11.0
SilenceTimeout(now, lastMessage, voltBat) ==
    ElapsedAtLeast(now, lastMessage, CAN_TIMEOUT + 1) /\ voltBat > 110

\* The mode-dependent data acquisition.  In real mode the bus is faulty
\* (error counters over MAX_CAN_ERRORS or bus off) or not, and readFrame
\* delivers one of the frames or nothing.
LoopAcquire(frames) ==
    /\ pc = "acquire"
    /\ IF Producer(mockMode) = "mock"
       THEN /\ mock' = MockUpdated(mock, millis)
            /\ gd' = MockUpdateGlobalData(mock, gd, millis)
            /\ lastCanMessageTime' = millis
            /\ pc' = "radio"
            /\ UNCHANGED <<rxVars, restarted>>
       ELSE \E busFault \in BOOLEAN, received \in BOOLEAN, frame \in frames :
            IF busFault
            THEN /\ restarted' = TRUE
                 /\ pc' = "fault"
                 /\ UNCHANGED <<gd, lastCanMessageTime, mock, rxVars>>
            ELSE
              /\ received => rxCount < MaxFrames
              /\ gd' = IF received
                       THEN HandleCanCapture(gd, frame, config, millis)
                       ELSE gd
              /\ lastCanMessageTime' = IF received THEN millis
                                       ELSE lastCanMessageTime
              /\ rxCount' = IF received THEN rxCount + 1 ELSE rxCount
              /\ lastFrame' = IF received THEN frame ELSE lastFrame
              /\ UNCHANGED <<readIdx, ret, mock>>
              /\ restarted' = SilenceTimeout(millis, lastCanMessageTime',
                                             gd'.voltBat)
              /\ pc' = IF restarted' THEN "restart" ELSE "radio"
    /\ UNCHANGED <<cmdVars, eqVars, encVars, fmlVars, radioTx, uartVars, millis, procVars, loadVars,
                   schedVars, mockMode, lastCmd>>

\* processRadioUpdates() at the end of the iteration
LoopRadio ==
    /\ pc = "radio"
    /\ RadioUpdatesCall
    /\ pc' = "serial"
    /\ UNCHANGED <<cmdVars, eqVars, encVars, fmlVars, millis, gd, procVars, rxVars, loadVars,
                   config, mockMode, lastCanMessageTime, mock, restarted,
                   lastCmd>>

\* Time passes between two iterations
LoopClock(instants) ==
    /\ pc = "serial"
    /\ ClockAdvance(instants)

-----------------------------------------------------------------------------
(* Encoder specification: direct calls of sendCanboxMessage *)

\* The harness variables before any direct call
NoCalls ==
    /\ encCmd = 0
    /\ encData = <<>>
    /\ fField = FieldConfig("STEERING", 0, 1, "MSB_FIRST", "UINT8", "NONE",
                            <<0, 0, 0, 0>>)
    /\ fHist = <<>>

\* The processor statistics, the RadioSend statics and the harness
\* variables after construction, with no frame received yet
StartedUncalibrated ==
    /\ radioTx = <<>>
    /\ radioRx = <<>>
    /\ radioRead = <<>>
    /\ framesProcessed = 0
    /\ unknownFrames = 0
    /\ rxCount = 0
    /\ lastFrame = [identifier |-> 0, data_length_code |-> 0,
                    data |-> <<0, 0, 0, 0, 0, 0, 0, 0>>]
    /\ readIdx = {}
    /\ ret = FALSE
    /\ lastDoc = [kind |-> "none", name |-> "", isMock |-> FALSE,
                  frames |-> <<>>]
    /\ loadRet = FALSE
    /\ rs = RadioSendStatics
    /\ tickCount = 0
    /\ pc = "serial"
    /\ restarted = FALSE
    /\ lastCmd = SerialCommand("none", TRUE, NoFile, NoFile)
    /\ ota = OtaStatics
    /\ firmware = "old"
    /\ upload = UploadStatics
    /\ fs = NoFiles
    /\ nvs = NvsErased
    /\ reply = "none"
    /\ cmdCount = 0
    /\ gdSchema = GlobalDataDefaults

\* ... with the calibration at its defaults
Started ==
    /\ StartedUncalibrated
    /\ config = ConfigDefaults

\* The state after construction: GlobalData at its defaults, the
\* processor in mock mode, the generator constructed
Boot ==
    /\ Started
    /\ gd = GlobalDataDefaults
    /\ mockMode = TRUE
    /\ lastCanMessageTime = 0
    /\ mock = MockConstructed

\* CanConfigProcessor(): an empty profile
EmptyProfile == [name |-> "", isMock |-> FALSE, frames |-> <<>>]

InitEnc ==
    /\ NoCalls
    /\ Boot
    /\ millis = 0
    /\ profile = EmptyProfile

NextEnc == SendCanboxMessage

SpecEnc == InitEnc /\ [][NextEnc]_vars

-----------------------------------------------------------------------------
(* Formula specification: applyFormula applied to sampled raw values under *)
(* one field configuration                                                *)

FormulaFields ==
    {FieldConfig("ENGINE_RPM", 0, 2, "MSB_FIRST", "UINT16", "SCALE", p) :
        p \in ScaleParams}
    \cup
    {FieldConfig("FUEL_LEVEL", 0, 1, "MSB_FIRST", "UINT8", "MAP_RANGE", p) :
        p \in MapParams}

ApplyFormulaCall ==
    \E raw \in RawSamples :
        /\ fHist' = <<(<<raw, ApplyFormula(raw, fField)>>)>> \o
                        (IF fHist = <<>> THEN <<>> ELSE <<fHist[1]>>)
        /\ UNCHANGED <<cmdVars, eqVars, fField, encVars, radioTx, uartVars, millis, gd, procVars,
                       rxVars, loadVars, schedVars, loopVars>>

InitFormula ==
    /\ encCmd = 0
    /\ encData = <<>>
    /\ fField \in FormulaFields
    /\ fHist = <<>>
    /\ Boot
    /\ millis = 0
    /\ profile = EmptyProfile

NextFormula == ApplyFormulaCall

SpecFormula == InitFormula /\ [][NextFormula]_vars

-----------------------------------------------------------------------------
(* Decoder specification: processFrame under a schema equivalent to the    *)
(* hardcoded Nissan Juke F15 decoder, with the rear and passenger doors    *)
(* reported by a second frame                                              *)

Bit24(target, mask, shift) ==
    FieldConfig(target, 0, 3, "MSB_FIRST", "UINT24", "BITMASK_EXTRACT",
                <<mask, shift, 0, 0>>)

JukeProfile ==
    [name |-> "Nissan Juke F15", isMock |-> FALSE,
     frames |-> <<
        [canId |-> 384, fields |-> <<
            FieldConfig("ENGINE_RPM", 0, 2, "MSB_FIRST", "UINT16", "SCALE",
                        <<1, 7, 0, 0>>)>>],
        [canId |-> 1549, fields |-> <<
            Bit24("DOOR_DRIVER", 1048576, 20),
            Bit24("DOOR_BOOT", 8388608, 23),
            Bit24("INDICATOR_LEFT", 8192, 13),
            Bit24("INDICATOR_RIGHT", 16384, 14),
            Bit24("HEADLIGHTS", 131072, 17)>>],
        [canId |-> 1550, fields |-> <<
            Bit24("DOOR_PASSENGER", 524288, 19),
            Bit24("DOOR_REAR_LEFT", 2097152, 21),
            Bit24("DOOR_REAR_RIGHT", 4194304, 22)>>],
        [canId |-> 1477, fields |-> <<
            FieldConfig("FUEL_LEVEL", 0, 1, "MSB_FIRST", "UINT8", "MAP_RANGE",
                        <<255, 0, 0, 45>>),
            FieldConfig("ODOMETER", 1, 3, "MSB_FIRST", "UINT24", "NONE",
                        <<0, 0, 0, 0>>)>>],
        [canId |-> 1356, fields |-> <<
            FieldConfig("TEMPERATURE", 0, 1, "MSB_FIRST", "UINT8", "SCALE",
                        <<1, 1, -40, 0>>),
            FieldConfig("DTE", 6, 2, "MSB_FIRST", "UINT16", "SCALE",
                        <<100, 283, 0, 0>>)>>]
     >>]

CanFrame(identifier, dlc, data) ==
    [identifier |-> identifier, data_length_code |-> dlc, data |-> data]

\* Frames the bus delivers: full and short frames of the configured
\* identifiers and frames no configuration matches.  The bytes of data
\* at and after data_length_code are what the receive buffer holds there.
DecFrames ==
    {CanFrame(384, 8, <<68, 126, 0, 0, 0, 0, 0, 0>>),
     CanFrame(384, 1, <<68, 126, 0, 0, 0, 0, 0, 0>>),
     CanFrame(2047, 8, <<68, 126, 0, 0, 0, 0, 0, 0>>),
     CanFrame(383, 2, <<255, 255, 0, 0, 0, 0, 0, 0>>),
     CanFrame(1477, 8, <<128, 1, 134, 160, 0, 0, 0, 0>>),
     CanFrame(1356, 8, <<90, 0, 0, 0, 0, 128, 4, 8>>),
     CanFrame(1356, 7, <<65, 0, 0, 0, 0, 128, 4, 8>>),
     CanFrame(1356, 6, <<65, 0, 0, 0, 0, 128, 1, 0>>)}
    \cup
    {CanFrame(1549, 8, <<b0, b1, 0, 0, 0, 0, 0, 0>>) :
        b0 \in {0, 16, 128, 144}, b1 \in {0, 32}}
    \cup
    {CanFrame(1550, 8, <<b0, 0, 0, 0, 0, 0, 0, 0>>) : b0 \in {0, 8, 104}}

InitDec ==
    /\ NoCalls
    /\ Boot
    /\ millis \in {0, 1000}
    /\ profile = JukeProfile

NextDec == ProcessFrame(DecFrames)

SpecDec == InitDec /\ [][NextDec]_vars

-----------------------------------------------------------------------------
(* Loader specification: loadFromJson on sampled files, then processFrame  *)
(* under whatever profile is installed                                     *)

FieldObj(target, startByte, byteCount, byteOrder, dataType, formula, params) ==
    [target |-> target, startByte |-> startByte, byteCount |-> byteCount,
     byteOrder |-> byteOrder, dataType |-> dataType, formula |-> formula,
     params |-> params]

OneFieldDoc(name, canId, fieldObj) ==
    [kind |-> "doc", name |-> name, isMock |-> FALSE,
     frames |-> <<[canId |-> canId, fields |-> <<fieldObj>>]>>]

RpmDoc ==
    OneFieldDoc("Rpm", 384,
        FieldObj("ENGINE_RPM", 0, 2, "BE", "UINT16", "SCALE", <<1, 7, 0>>))

SteerLeDoc ==
    OneFieldDoc("SteerLE", 2,
        FieldObj("STEERING", 1, 2, "LE", "INT16", "NONE", <<>>))

ZeroDivDoc ==
    OneFieldDoc("ZeroDiv", 384,
        FieldObj("ENGINE_RPM", 0, 2, "BE", "UINT16", "SCALE", <<1, 0, 0>>))

BadFormulaDoc ==
    OneFieldDoc("BadFormula", 384,
        FieldObj("ENGINE_RPM", 0, 2, "BE", "UINT16", "POLYNOMIAL", <<1, 7, 0>>))

BadOrderDoc ==
    OneFieldDoc("BadOrder", 384,
        FieldObj("ENGINE_RPM", 0, 2, "MIDDLE", "UINT16", "SCALE", <<1, 7, 0>>))

BadTargetDoc ==
    OneFieldDoc("BadTarget", 384,
        FieldObj("SUNROOF", 0, 2, "BE", "UINT16", "SCALE", <<1, 7, 0>>))

BadSpanDoc ==
    OneFieldDoc("BadSpan", 384,
        FieldObj("DTE", 7, 2, "BE", "UINT16", "NONE", <<>>))

NoFramesDoc ==
    [kind |-> "doc", name |-> "Mock Demo", isMock |-> TRUE, frames |-> <<>>]

DocSamples ==
    {NoFile, BadJson, RpmDoc, SteerLeDoc, ZeroDivDoc, BadFormulaDoc,
     BadOrderDoc, BadTargetDoc, BadSpanDoc, NoFramesDoc}

LoadFrames ==
    {CanFrame(384, 8, <<68, 126, 0, 0, 0, 0, 0, 1>>),
     CanFrame(384, 8, <<0, 7, 0, 0, 0, 0, 0, 0>>),
     CanFrame(2, 8, <<0, 52, 18, 0, 0, 0, 0, 0>>),
     CanFrame(1549, 8, <<144, 32, 0, 0, 0, 0, 0, 0>>)}

InitLoad ==
    /\ NoCalls
    /\ Boot
    /\ millis = 0
    /\ profile = EmptyProfile

NextLoad ==
    \/ LoadFromJson(DocSamples)
    \/ ProcessFrame(LoadFrames)

SpecLoad == InitLoad /\ [][NextLoad]_vars

-----------------------------------------------------------------------------
(* Scheduler specification: the clock visits sampled instants, frames are  *)
(* decoded under the Juke profile and processRadioUpdates runs at any of   *)
(* the instants                                                            *)

Instants ==
    {37, 200, 250, 500, 1000, 1499, 1501, 5000, 10000, 20000}

SchedFrames ==
    {CanFrame(1549, 8, <<16, 0, 0, 0, 0, 0, 0, 0>>),
     CanFrame(1549, 8, <<0, 32, 0, 0, 0, 0, 0, 0>>)}

InitSched ==
    /\ NoCalls
    /\ Boot
    /\ millis = 0
    /\ profile = JukeProfile

NextSched ==
    \/ ClockAdvance(Instants)
    \/ ProcessFrame(SchedFrames)
    \/ ProcessRadioUpdates

SpecSched == InitSched /\ [][NextSched]_vars

-----------------------------------------------------------------------------
(* Main-loop specification: setup() has run with or without a              *)
(* configuration file on flash, then loop() iterates                       *)

MockDoc ==
    [kind |-> "doc", name |-> "Mock", isMock |-> TRUE,
     frames |-> <<[canId |-> 384, fields |-> <<
        FieldObj("ENGINE_RPM", 0, 2, "BE", "UINT16", "SCALE", <<1, 7, 0>>)>>]>>]

BootFiles == {NoFile, RpmDoc}

\* setup(): begin() on the file found, mockGenerator.begin() in mock
\* mode, lastCanMessageTime = millis() after the 2 s boot delay
SetupAt(now, vehicleJson) ==
    LET b == BeginResult(EmptyProfile, TRUE, TRUE, vehicleJson, NoFile)
    IN  /\ millis = now
        /\ profile = b.profile
        /\ mockMode = b.mockMode
        /\ mock = IF b.mockMode THEN MockBegin(MockConstructed)
                  ELSE MockConstructed
        /\ gd = IF b.mockMode
                THEN MockWriteToGlobalData(GlobalDataDefaults,
                                           MockBeginValues, now)
                ELSE GlobalDataDefaults
        /\ lastCanMessageTime = now

LoopCommands ==
    {SerialCommand("none", TRUE, NoFile, NoFile)}
    \cup {SerialCommand("LOAD", TRUE, f, NoFile) :
            f \in {NoFile, BadJson, NoFramesDoc, SteerLeDoc, MockDoc}}
    \cup {SerialCommand("RELOAD", FALSE, NoFile, NoFile),
          SerialCommand("RELOAD", TRUE, NoFile, NoFile),
          SerialCommand("RELOAD", TRUE, NoFramesDoc, RpmDoc),
          SerialCommand("RELOAD", TRUE, MockDoc, NoFile),
          SerialCommand("RELOAD", TRUE, SteerLeDoc, NoFile)}

LoopInstants == {2040, 2050, 2600, 32000, 32001}

LoopFrames ==
    {CanFrame(384, 8, <<68, 126, 0, 0, 0, 0, 0, 0>>),
     CanFrame(1782, 8, <<141, 0, 0, 0, 0, 0, 0, 0>>),
     CanFrame(2047, 8, <<68, 126, 0, 0, 0, 0, 0, 0>>)}

InitLoop ==
    /\ NoCalls
    /\ Started
    /\ \E vehicleJson \in BootFiles : SetupAt(2000, vehicleJson)

NextLoop ==
    \/ LoopClock(LoopInstants)
    \/ LoopSerial(LoopCommands)
    \/ LoopReset
    \/ LoopAcquire(LoopFrames)
    \/ LoopRadio

SpecLoop == InitLoop /\ [][NextLoop]_vars

-----------------------------------------------------------------------------
(* Claims *)

RECURSIVE SeqSum(_)
SeqSum(s) == IF s = <<>> THEN 0 ELSE Head(s) + SeqSum(Tail(s))

\* C1: sendCanboxMessage(cmd, data, N) writes exactly N+4 bytes: 0x2E, cmd,
\* N, the N payload bytes unchanged and the checksum
\* ((cmd + N + sum of payload) mod 256) XOR 0xFF; for cmd 0x29 and payload
\* [0x34, 0x12] the bytes are 2E 29 02 34 12 8E.
C1_Framing ==
    radioTx # <<>> =>
        /\ Len(radioTx) = 1
        /\ Len(radioTx[1]) = Len(encData) + 4
        /\ radioTx[1][1] = 46
        /\ radioTx[1][2] = encCmd
        /\ radioTx[1][3] = Len(encData)
        /\ \A i \in 1..Len(encData) : radioTx[1][3 + i] = encData[i]
        /\ radioTx[1][Len(encData) + 4] =
               255 - ((encCmd + Len(encData) + SeqSum(encData)) % 256)
        /\ (encCmd = 41 /\ encData = <<52, 18>>
               => radioTx[1] = <<46, 41, 2, 52, 18, 142>>)

C1_Witness ==
    /\ encCmd = 41
    /\ encData = <<52, 18>>
    /\ radioTx = <<(<<46, 41, 2, 52, 18, 142>>)>>


\* Exact (unbounded) value of a SCALE conversion, where it can be computed
\* without leaving the 32-bit range.
FitsI32(rawValue, mult) ==
    /\ rawValue # MinI32
    /\ mult # MinI32
    /\ Abs(rawValue) <= MaxI32 \div Abs(mult)

TruncDiv(a, b) ==
    LET q == Abs(a) \div Abs(b)
    IN  IF (a < 0) # (b < 0) THEN 0 - q ELSE q

ScaleExact(rawValue, mult, div, offset) ==
    TruncDiv(rawValue * mult, div) + offset

ScaleFits(rawValue, mult, div, offset) ==
    /\ FitsI32(rawValue, mult)
    /\ Abs(TruncDiv(rawValue * mult, div)) <= MaxI32 - Abs(offset)

Between(x, a, b) == (a <= x /\ x <= b) \/ (b <= x /\ x <= a)

C5_MapRange ==
    LET p == fField.params
    IN  (fField.formula = "MAP_RANGE" /\ p[1] # p[2]) =>
        /\ \A i \in 1..Len(fHist) :
              /\ fHist[i][1] = p[1] => fHist[i][2] = p[3]
              /\ fHist[i][1] = p[2] => fHist[i][2] = p[4]
              /\ p = <<255, 0, 0, 45>> =>
                    /\ fHist[i][1] = 255 => fHist[i][2] = 0
                    /\ fHist[i][1] = 0 => fHist[i][2] = 45
                    /\ fHist[i][1] = 128 => fHist[i][2] \in 21..23
        /\ (Len(fHist) = 2
             /\ Between(fHist[1][1], p[1], p[2])
             /\ Between(fHist[2][1], p[1], p[2])
             /\ fHist[1][1] <= fHist[2][1]) =>
              IF (p[1] < p[2]) = (p[3] <= p[4])
              THEN fHist[1][2] <= fHist[2][2]
              ELSE fHist[1][2] >= fHist[2][2]

C5_Witness ==
    /\ fField.formula = "MAP_RANGE"
    /\ fField.params = <<255, 0, 0, 45>>
    /\ Len(fHist) = 2
    /\ fHist[1] = <<128, 22>>
    /\ fHist[2] = <<255, 0>>

HasBit(v, bit) == (v \div bit) % 2 = 1

DoorTargets ==
    {"DOOR_DRIVER", "DOOR_PASSENGER", "DOOR_REAR_LEFT", "DOOR_REAR_RIGHT",
     "DOOR_BOOT"}

DoorBit(target) ==
    CASE target = "DOOR_DRIVER" -> 128
      [] target = "DOOR_PASSENGER" -> 64
      [] target = "DOOR_REAR_LEFT" -> 32
      [] target = "DOOR_REAR_RIGHT" -> 16
      [] target = "DOOR_BOOT" -> 8

\* The fields of the configuration the frame of this step matched
StepFields == profile.frames[FindFrameConfig(profile, lastFrame'.identifier)].fields

\* A processFrame step on a matched frame
MatchedStep == rxCount' # rxCount /\ ret'

\* C6: a DOOR_* write changes only that door's bit of currentDoors (set
\* when the converted value is non-zero, cleared when zero); the other
\* bits and every other VehicleState variable stay; a frame setting
\* DOOR_DRIVER and DOOR_BOOT true changes exactly bits 0x80 and 0x08.
C6_Step ==
    MatchedStep =>
        LET written == {StepFields[i].target : i \in 1..Len(StepFields)}
            value(t) ==
                LET i == CHOOSE j \in 1..Len(StepFields) :
                             StepFields[j].target = t
                IN  ApplyFormula(
                        ExtractRawValue(lastFrame'.data, StepFields[i], 0),
                        StepFields[i])
        IN  /\ \A t \in DoorTargets :
                  HasBit(gd'.currentDoors, DoorBit(t)) =
                      IF t \in written THEN value(t) # 0
                      ELSE HasBit(gd.currentDoors, DoorBit(t))
            /\ gd'.currentDoors % 8 = gd.currentDoors % 8
            /\ written \subseteq DoorTargets =>
                   gd' = [gd EXCEPT !.currentDoors = gd'.currentDoors]
            /\ (lastFrame'.identifier = 1549 /\ lastFrame'.data[1] = 144) =>
                   /\ HasBit(gd'.currentDoors, 128)
                   /\ HasBit(gd'.currentDoors, 8)
                   /\ \A b \in {64, 32, 16} :
                         HasBit(gd'.currentDoors, b) = HasBit(gd.currentDoors, b)

C6_DoorBitOnly == [][C6_Step]_vars

C6_Witness ==
    /\ lastFrame.identifier = 1549
    /\ lastFrame.data[1] = 144
    /\ gd.currentDoors = 248

\* C8: an unmatched frame increments the unknown counter by one, returns
\* false and leaves the processed counter and VehicleState unchanged; a
\* matched frame increments only the processed counter; processed +
\* unknown equals the number of frames passed to processFrame.
C8_Step ==
    rxCount' # rxCount =>
        /\ IF \A i \in 1..Len(profile.frames) :
                  profile.frames[i].canId # lastFrame'.identifier
           THEN /\ unknownFrames' = unknownFrames + 1
                /\ framesProcessed' = framesProcessed
                /\ ret' = FALSE
                /\ gd' = gd
           ELSE /\ framesProcessed' = framesProcessed + 1
                /\ unknownFrames' = unknownFrames
        /\ framesProcessed' + unknownFrames' = rxCount'

C8_Counters == [][C8_Step]_vars

C8_Witness ==
    /\ rxCount = 3
    /\ lastFrame.identifier = 2047
    /\ unknownFrames = 1
    /\ framesProcessed = 2
    /\ gd.engineRPM = 2504

\* The value of the signal a target writes
TargetValue(g, target) ==
    CASE target = "STEERING" -> g.currentSteer
      [] target = "ENGINE_RPM" -> g.engineRPM
      [] target = "VEHICLE_SPEED" -> g.vehicleSpeed
      [] target = "FUEL_LEVEL" -> g.fuelLevel
      [] target = "ODOMETER" -> g.currentOdo
      [] target = "VOLTAGE" -> g.voltBat
      [] target = "TEMPERATURE" -> g.tempExt
      [] target = "DTE" -> g.dteValue
      [] target = "FUEL_CONS_INST" -> g.fuelConsumptionInst
      [] target = "FUEL_CONS_AVG" -> g.fuelConsumptionAvg
      [] target \in DoorTargets -> HasBit(g.currentDoors, DoorBit(target))
      [] target = "INDICATOR_LEFT" -> g.lastLeftIndicatorTime
      [] target = "INDICATOR_RIGHT" -> g.lastRightIndicatorTime
      [] target = "HEADLIGHTS" -> g.headlightsOn
      [] target = "HIGH_BEAM" -> g.highBeamOn
      [] target = "PARKING_LIGHTS" -> g.parkingLightsOn

\* C9: a field whose startByte + byteCount exceeds the declared length of
\* the frame is skipped (its target keeps its value) and no byte at an
\* index >= the declared length, or >= 8, is read.
C9_Step ==
    MatchedStep =>
        /\ \A i \in 1..Len(StepFields) :
              StepFields[i].startByte + StepFields[i].byteCount >
                  lastFrame'.data_length_code
              => TargetValue(gd', StepFields[i].target) =
                     TargetValue(gd, StepFields[i].target)
        /\ \A j \in readIdx' : j < lastFrame'.data_length_code /\ j < 8

C9_ShortFieldSkipped == [][C9_Step]_vars

\* What load-time validation is to reject in a field object
FieldObjInvalid(fo) ==
    \/ fo.formula = "SCALE" /\ (Len(fo.params) < 2 \/ fo.params[2] = 0)
    \/ fo.formula \notin FormulaTypes
    \/ fo.byteOrder \notin {"BE", "BIG_ENDIAN", "MSB_FIRST", "LE",
                             "LITTLE_ENDIAN", "LSB_FIRST"}
    \/ fo.target \notin OutputFields
    \/ fo.startByte + fo.byteCount > 8

DocInvalid(doc) ==
    /\ doc.kind = "doc"
    /\ \E i \in 1..Len(doc.frames) :
          \E j \in 1..Len(doc.frames[i].fields) :
              FieldObjInvalid(doc.frames[i].fields[j])

\* C10: a schema document with a SCALE divisor of 0, an unknown formula,
\* byte-order or target token, or a field with startByte + byteCount > 8
\* is rejected by loadFromJson, and no such field is ever installed in the
\* active frame table.
C10_InvalidSchemaRejected ==
    /\ DocInvalid(lastDoc) => ~loadRet
    /\ \A i \in 1..Len(profile.frames) :
          \A j \in 1..Len(profile.frames[i].fields) :
              LET f == profile.frames[i].fields[j]
              IN  /\ ~(f.formula = "SCALE" /\ f.params[2] = 0)
                  /\ f.startByte + f.byteCount <= 8

\* A processRadioUpdates step
Tick == tickCount' = tickCount + 1

\* The frames of one kind among the frames a call wrote: the kind is the
\* command byte and, for command 0x7D, the sub-command byte (sub = -1
\* when the command has none)
FramesOfKind(tx, cmd, sub) ==
    {i \in 1..Len(tx) : tx[i][2] = cmd /\ (sub = -1 \/ tx[i][4] = sub)}

\* The door and lights payloads a call at clock value now computes
DoorPayload == DoorStatus(gd.currentDoors)
LightsPayload == LightStatus(gd, config, millis)

\* C2: in every call of processRadioUpdates a door-status (floor 250 ms)
\* resp. lights (floor 200 ms) frame is emitted if and only if the payload
\* computed in the call differs from the last transmitted one or the floor
\* has elapsed since the kind's last emission; the emitted frame carries
\* the computed payload and the emission is recorded.
C2_Step ==
    Tick =>
        LET doorDue == \/ DoorPayload # rs.lastSentDoors
                       \/ millis - rs.lastDoorTime >= 250
            lightsDue == \/ LightsPayload # rs.lastSentLights
                         \/ millis - rs.lastLightsTime >= 200
            doors == FramesOfKind(radioTx', 36, -1)
            lights == FramesOfKind(radioTx', 125, 1)
        IN  /\ Cardinality(doors) = IF doorDue THEN 1 ELSE 0
            /\ \A i \in doors : radioTx'[i][4] = DoorPayload
            /\ rs'.lastSentDoors = IF doorDue THEN DoorPayload
                                   ELSE rs.lastSentDoors
            /\ rs'.lastDoorTime = IF doorDue THEN millis ELSE rs.lastDoorTime
            /\ Cardinality(lights) = IF lightsDue THEN 1 ELSE 0
            /\ \A i \in lights : radioTx'[i][5] = LightsPayload
            /\ rs'.lastSentLights = IF lightsDue THEN LightsPayload
                                    ELSE rs.lastSentLights
            /\ rs'.lastLightsTime = IF lightsDue THEN millis
                                    ELSE rs.lastLightsTime

C2_OnChangeWithFloor == [][C2_Step]_vars

\* A door opened at t=37 ms, 37 ms after the closed doors were sent, is
\* sent by the call at t=37 ms
C2_Witness ==
    /\ millis = 37
    /\ tickCount = 2
    /\ gd.currentDoors = 128
    /\ radioTx = <<(<<46, 36, 1, 128, 90>>)>>
    /\ rs.lastSentDoors = 128
    /\ rs.lastDoorTime = 37

PeriodicKinds ==
    {[timer |-> "lastSteeringTime", cmd |-> 41, sub |-> -1, interval |-> 200],
     [timer |-> "lastRpmTime", cmd |-> 125, sub |-> 10, interval |-> 333],
     [timer |-> "lastSpeedTime", cmd |-> 125, sub |-> 3, interval |-> 500],
     [timer |-> "lastFuelConsTime", cmd |-> 34, sub |-> -1, interval |-> 1000],
     [timer |-> "lastFuelConsAvgTime", cmd |-> 35, sub |-> -1,
      interval |-> 5000],
     [timer |-> "lastTempTime", cmd |-> 40, sub |-> -1, interval |-> 5000],
     [timer |-> "lastRangeTime", cmd |-> 33, sub |-> -1, interval |-> 5000],
     [timer |-> "lastOdometerTime", cmd |-> 125, sub |-> 4,
      interval |-> 10000]}

\* C3: for each periodic kind a call of processRadioUpdates emits exactly
\* one frame of the kind if the time since the kind's last emission is at
\* least its interval and none otherwise, and an emission records the
\* current tick time as the kind's last emission.
C3_Step ==
    Tick =>
        \A k \in PeriodicKinds :
            LET due == millis - rs[k.timer] >= k.interval
            IN  /\ Cardinality(FramesOfKind(radioTx', k.cmd, k.sub)) =
                       IF due THEN 1 ELSE 0
                /\ rs'[k.timer] = IF due THEN millis ELSE rs[k.timer]
                /\ due => rs'[k.timer] - rs[k.timer] >= k.interval

C3_Periodic == [][C3_Step]_vars

\* The first call, at t=500 ms: steering, RPM and speed are due and sent
\* once each, the slower kinds are not
C3_Witness ==
    /\ millis = 500
    /\ tickCount = 1
    /\ \A k \in PeriodicKinds :
          /\ rs[k.timer] = IF k.interval <= 500 THEN 500 ELSE 0
          /\ Cardinality(FramesOfKind(radioTx, k.cmd, k.sub)) =
                 IF k.interval <= 500 THEN 1 ELSE 0

\* C7: in each scheduler tick the left (right) indicator bit of the lights
\* payload is set if and only if now - lastLeftIndicatorTime
\* (lastRightIndicatorTime) is strictly less than the configured indicator
\* timeout, and a decoded indicator value of false never changes the
\* timestamp.
C7_Step ==
    /\ Tick =>
          /\ rs'.lastSentLights = LightsPayload
          /\ \A i \in FramesOfKind(radioTx', 125, 1) :
                radioTx'[i][5] = LightsPayload
          /\ HasBit(LightsPayload, 16) <=>
                (millis - gd.lastLeftIndicatorTime < config.indicatorTimeout)
          /\ HasBit(LightsPayload, 8) <=>
                (millis - gd.lastRightIndicatorTime < config.indicatorTimeout)
    /\ rxCount' # rxCount =>
          LET decodedTrue(t) ==
                  /\ ret'
                  /\ \E i \in 1..Len(StepFields) :
                        /\ StepFields[i].target = t
                        /\ ApplyFormula(
                               ExtractRawValue(lastFrame'.data, StepFields[i], 0),
                               StepFields[i]) # 0
          IN  /\ gd'.lastLeftIndicatorTime =
                     IF decodedTrue("INDICATOR_LEFT") THEN millis
                     ELSE gd.lastLeftIndicatorTime
              /\ gd'.lastRightIndicatorTime =
                     IF decodedTrue("INDICATOR_RIGHT") THEN millis
                     ELSE gd.lastRightIndicatorTime

C7_IndicatorTimeout == [][C7_Step]_vars

\* Left indicator activity stamped at t=1000 ms: reported active by the
\* call at t=1499 ms, and the call at t=1501 ms sends the lights frame
\* with the bit cleared
C7_Witness ==
    /\ millis = 1501
    /\ gd.lastLeftIndicatorTime = 1000
    /\ config.indicatorTimeout = 500
    /\ radioTx = <<(<<46, 125, 2, 1, 0, 127>>)>>
    /\ rs.lastSentLights = 0
    /\ rs.lastLightsTime = 1501

-----------------------------------------------------------------------------
(* Wrap-around specification: the main loop with no serial command, while  *)
(* the millisecond clock runs up to 2^32 - 1 and wraps to 0.  Clock values *)
(* from 2^31 on are held as negative 32-bit patterns: -300 is 2^32 - 300.  *)

WrapInstants ==
    {2147483500, -300, -250, -100, 33, 200, 201, 29700, 29701}

WrapCommands == {SerialCommand("none", TRUE, NoFile, NoFile)}

WrapFrames ==
    {CanFrame(1782, 8, <<141, 0, 0, 0, 0, 0, 0, 0>>),
     CanFrame(1549, 8, <<0, 32, 0, 0, 0, 0, 0, 0>>)}

NextWrap ==
    \/ LoopClock(WrapInstants)
    \/ LoopSerial(WrapCommands)
    \/ LoopAcquire(WrapFrames)
    \/ LoopRadio

SpecWrap == InitLoop /\ [][NextWrap]_vars

-----------------------------------------------------------------------------
(* Radio specification: the head unit sends bytes between the calls of     *)
(* processRadioUpdates                                                     *)

RadioInstants == {200, 333, 1000}

RadioChunks == {<<46, 192, 0, 63>>, <<7, 46>>}

NextRadio ==
    \/ ClockAdvance(RadioInstants)
    \/ RadioReceive(RadioChunks)
    \/ ProcessRadioUpdates

SpecRadio == InitSched /\ [][NextRadio]_vars

-----------------------------------------------------------------------------
(* Legacy handshake specification: the head unit sends up to MaxInbound    *)
(* bytes, then handshake() of the VW variant is called on them             *)

InboundBytes == {0, 1, 8, 46, 144, 192}

InitLegacy ==
    /\ NoCalls
    /\ Boot
    /\ millis = 0
    /\ profile = EmptyProfile

NextLegacy ==
    \/ radioRead = <<>> /\ RadioReceive({<<b>> : b \in InboundBytes})
    \/ LegacyHandshakeCall

SpecLegacy == InitLegacy /\ [][NextLegacy]_vars

-----------------------------------------------------------------------------
(* RPM specification: processFrame under the profile loaded from a file    *)
(* with the single field ENGINE_RPM: frame 0x180, bytes 0-1 big-endian     *)
(* unsigned, SCALE(1, 7, 0)                                                *)

RpmFrames ==
    {CanFrame(384, 8, <<0, 0, 68, 126, 0, 0, 0, 0>>),
     CanFrame(384, 8, <<68, 126, 0, 0, 0, 0, 0, 0>>),
     CanFrame(384, 8, <<126, 68, 0, 0, 0, 0, 0, 0>>),
     CanFrame(384, 8, <<0, 7, 0, 0, 0, 0, 0, 0>>),
     CanFrame(384, 8, <<255, 255, 0, 0, 0, 0, 0, 0>>),
     CanFrame(385, 8, <<68, 126, 0, 0, 0, 0, 0, 0>>)}

InitRpm ==
    /\ NoCalls
    /\ Boot
    /\ millis = 0
    /\ profile = LoadedProfile(RpmDoc)

RpmInstants == {10, 20, 30}

NextRpm ==
    \/ ClockAdvance(RpmInstants)
    \/ ProcessFrame(RpmFrames)

SpecRpm == InitRpm /\ [][NextRpm]_vars

-----------------------------------------------------------------------------
(* Claims on the main loop and the profile switch *)

\* A serialCommandProcess step that ran CAN LOAD or CAN RELOAD
SwitchStep ==
    /\ pc = "serial"
    /\ pc' # "serial"
    /\ lastCmd'.kind \in {"LOAD", "RELOAD"}

\* The data acquisition step and the radio update step of an iteration
AcquireStep == pc = "acquire" /\ pc' # "acquire"
RadioStep == pc = "radio" /\ pc' = "serial"

\* The profile has a field that targets the signal
HasTarget(prof, target) ==
    \E i \in 1..Len(prof.frames) :
        \E j \in 1..Len(prof.frames[i].fields) :
            prof.frames[i].fields[j].target = target

\* C11: a CAN LOAD or CAN RELOAD whose load fails (no file, JSON that
\* does not parse, a document without usable frames) leaves the frame
\* table, the profile name, the profile's mock flag, the mock mode and
\* VehicleState exactly as they were and does not restart the device.
C11_Step ==
    (SwitchStep /\ ~loadRet') =>
        /\ profile' = profile
        /\ mockMode' = mockMode
        /\ gd' = gd
        /\ ~restarted'

C11_FailedLoadKeepsProfile == [][C11_Step]_vars

\* C12: after a successful CAN LOAD or CAN RELOAD VehicleState is at its
\* defaults when the next producer runs, and while the active profile is
\* the one just loaded and has no field targeting ENGINE_RPM, engineRPM
\* is 0 at every scheduler tick in real mode.
C12_RpmDefaultAfterSwitch ==
    /\ (pc = "acquire" /\ lastCmd.kind \in {"LOAD", "RELOAD"} /\ loadRet)
          => gd = GlobalDataDefaults
    /\ (pc = "radio" /\ loadRet /\ ~mockMode
        /\ ~HasTarget(profile, "ENGINE_RPM"))
          => gd.engineRPM = 0

\* C13: a scheduler tick happens only in the radio phase and a frame
\* decode or generator run only in the acquisition phase of an iteration,
\* so none runs inside a CAN LOAD / CAN RELOAD; the only step that
\* follows the installation of a new table is the VehicleState reset,
\* which leaves the table alone and puts every signal at its default; and
\* the first producer after a successful switch finds the table of the
\* loaded file complete and VehicleState entirely at its defaults.
C13_Step ==
    /\ Tick => RadioStep
    /\ (rxCount' # rxCount \/ mock' # mock) => AcquireStep
    /\ pc = "reset" =>
          /\ pc' = "acquire"
          /\ gd' = GlobalDataDefaults
          /\ UNCHANGED <<profile, mockMode, tickCount, radioTx, rs, rxCount,
                         mock>>
    /\ SwitchStep =>
          /\ gd' = gd
          /\ loadRet' => pc' = "reset"
          /\ (loadRet' /\ lastCmd'.kind = "LOAD") =>
                profile' = LoadedProfile(lastCmd'.file)
    /\ (AcquireStep /\ lastCmd.kind \in {"LOAD", "RELOAD"} /\ loadRet) =>
          gd = GlobalDataDefaults

C13_SwitchAtomic == [][C13_Step]_vars

\* Booted in mock mode, the generator has filled VehicleState and one
\* iteration has run; CAN LOAD of the steering profile succeeded and the
\* acquisition of that iteration starts from the defaults
C13_Witness ==
    /\ pc = "acquire"
    /\ tickCount = 1
    /\ lastCmd.kind = "LOAD"
    /\ loadRet
    /\ profile = LoadedProfile(SteerLeDoc)
    /\ mock.currentValues # MockConstructed.currentValues
    /\ gd = GlobalDataDefaults

\* C14: in real mode every frame the main loop reads from the bus is
\* decoded under the active profile: a frame that matches a frame
\* configuration has that configuration's fields applied and is counted
\* as processed, any other frame leaves VehicleState alone and is counted
\* as unknown.
C14_Step ==
    (AcquireStep /\ ~mockMode /\ rxCount' # rxCount) =>
        LET k == FindFrameConfig(profile, lastFrame'.identifier)
        IN  IF k # 0
            THEN /\ gd' = ProcessFields(gd, profile.frames[k].fields, 1,
                                        lastFrame'.data, millis, 0)
                 /\ framesProcessed' = framesProcessed + 1
                 /\ unknownFrames' = unknownFrames
            ELSE /\ gd' = gd
                 /\ framesProcessed' = framesProcessed
                 /\ unknownFrames' = unknownFrames + 1

C14_SchemaDecoderInLoop == [][C14_Step]_vars

\* C15: the acquisition step of an iteration runs the mock generator only
\* when isMockMode() is true and reads a bus frame only when it is false,
\* never both; outside the acquisition step and the reset of a profile
\* switch VehicleState is not written, and processRadioUpdates leaves
\* every signal as it was.
C15_Step ==
    /\ mock' # mock => (AcquireStep /\ mockMode /\ rxCount' = rxCount)
    /\ rxCount' # rxCount => (AcquireStep /\ ~mockMode /\ mock' = mock)
    /\ gd' # gd => (AcquireStep \/ pc = "reset")
    /\ (AcquireStep /\ gd' # gd) => (mockMode \/ rxCount' # rxCount)
    /\ (AcquireStep /\ mockMode) => lastFrame' = lastFrame
    /\ RadioStep => gd' = gd

C15_OneProducer == [][C15_Step]_vars

\* Real mode: a bus frame was decoded, the generator has never run, and
\* the radio update of the iteration follows
C15_Witness ==
    /\ pc = "radio"
    /\ ~mockMode
    /\ rxCount = 1
    /\ lastFrame.identifier = 384
    /\ gd.engineRPM = 2504
    /\ mock = MockConstructed

\* C16: after a successful CAN LOAD or CAN RELOAD isMockMode() equals the
\* isMock flag of the profile just loaded.
C16_ModeFollowsProfile ==
    loadRet => mockMode = profile.isMock

\* The clock values within 40 s of the wrap, as 32-bit patterns: there
\* the pattern of a later instant minus the pattern of an earlier one is
\* their unsigned difference (now - last) mod 2^32
NearWrap(t) == t >= -40000 /\ t <= 40000
Since(last) == millis - last
Covered(last) == NearWrap(millis) /\ NearWrap(last) /\ last <= millis

\* C17: around the wrap of the millisecond clock every interval and
\* timeout test decides by the unsigned difference now - last: a periodic
\* kind is emitted exactly when that difference has reached its interval
\* (doors and lights: their floor, unless the payload changed),
\* an indicator is active exactly while it is below the timeout, the mock
\* generator updates exactly when it has reached the update interval and
\* toggles the indicator when it exceeds 500 ms, and the bus-silence
\* restart happens exactly when it exceeds CAN_TIMEOUT with the battery
\* above 11 V.
C17_Step ==
    /\ RadioStep =>
          /\ \A k \in PeriodicKinds :
                Covered(rs[k.timer]) =>
                    LET due == Since(rs[k.timer]) >= k.interval
                    IN  /\ Cardinality(FramesOfKind(radioTx', k.cmd, k.sub)) =
                               IF due THEN 1 ELSE 0
                        /\ rs'[k.timer] = IF due THEN millis ELSE rs[k.timer]
          /\ Covered(rs.lastDoorTime) =>
                (Cardinality(FramesOfKind(radioTx', 36, -1)) = 1
                    <=> (DoorPayload # rs.lastSentDoors
                         \/ Since(rs.lastDoorTime) >= 250))
          /\ Covered(rs.lastLightsTime) =>
                (Cardinality(FramesOfKind(radioTx', 125, 1)) = 1
                    <=> (LightsPayload # rs.lastSentLights
                         \/ Since(rs.lastLightsTime) >= 200))
          /\ Covered(gd.lastLeftIndicatorTime) =>
                (HasBit(LightsPayload, 16)
                    <=> Since(gd.lastLeftIndicatorTime) < 500)
          /\ Covered(gd.lastRightIndicatorTime) =>
                (HasBit(LightsPayload, 8)
                    <=> Since(gd.lastRightIndicatorTime) < 500)
    /\ (AcquireStep /\ mockMode /\ Covered(mock.lastUpdate)) =>
          /\ mock'.lastUpdate =
                 IF Since(mock.lastUpdate) >= 50 THEN millis
                 ELSE mock.lastUpdate
          /\ Since(mock.lastUpdate) < 50 => (mock' = mock /\ gd' = gd)
          /\ Covered(mock.lastIndicatorToggle) =>
                mock'.lastIndicatorToggle =
                    IF Since(mock.lastUpdate) >= 50
                       /\ Since(mock.lastIndicatorToggle) > 500
                    THEN millis ELSE mock.lastIndicatorToggle
    /\ (AcquireStep /\ ~mockMode /\ pc' # "fault"
        /\ Covered(lastCanMessageTime')) =>
          (restarted' <=> (Since(lastCanMessageTime') > 30000
                           /\ gd'.voltBat > 110))

C17_WrapTolerantTimers == [][C17_Step]_vars

\* Ticks at 2^32 - 300, 2^32 - 100 and 33 ms: the RPM frame sent at
\* 2^32 - 300 is sent again 333 ms later, at 33 ms after the wrap; the
\* steering frame was sent at 2^32 - 100 and is not due at 33 ms
C17_Witness ==
    /\ millis = 33
    /\ tickCount = 3
    /\ rs.lastSpeedTime = -300
    /\ rs.lastSteeringTime = -100
    /\ rs.lastRpmTime = 33
    /\ Cardinality(FramesOfKind(radioTx, 125, 10)) = 1
    /\ Cardinality(FramesOfKind(radioTx, 41, -1)) = 0

-----------------------------------------------------------------------------
(* Claims on the handshake *)

ScheduledCommands == {33, 34, 35, 36, 40, 41, 125}

\* C18: a call of processRadioUpdates of the RAV4 variant reads every
\* pending inbound byte and leaves the buffer empty, writes exactly the
\* frames of the kinds that are due and nothing else, stamps exactly
\* those kinds and leaves VehicleState alone, whatever the inbound bytes
\* were; receiving bytes changes nothing but the buffer.
C18_Step ==
    /\ Tick =>
          LET duePeriodic == {k \in PeriodicKinds :
                                millis - rs[k.timer] >= k.interval}
              doorDue == \/ DoorPayload # rs.lastSentDoors
                         \/ millis - rs.lastDoorTime >= 250
              lightsDue == \/ LightsPayload # rs.lastSentLights
                           \/ millis - rs.lastLightsTime >= 200
          IN  /\ radioRead' = radioRx
              /\ radioRx' = <<>>
              /\ gd' = gd
              /\ Len(radioTx') = Cardinality(duePeriodic)
                                 + (IF doorDue THEN 1 ELSE 0)
                                 + (IF lightsDue THEN 1 ELSE 0)
              /\ \A i \in 1..Len(radioTx') :
                    radioTx'[i][2] \in ScheduledCommands
              /\ \A k \in PeriodicKinds :
                    rs'[k.timer] = IF k \in duePeriodic THEN millis
                                   ELSE rs[k.timer]
              /\ rs'.lastDoorTime = IF doorDue THEN millis
                                    ELSE rs.lastDoorTime
              /\ rs'.lastLightsTime = IF lightsDue THEN millis
                                      ELSE rs.lastLightsTime
    /\ (~Tick /\ radioRx' # radioRx) =>
          UNCHANGED <<gd, rs, radioTx, radioRead>>

C18_InboundDiscarded == [][C18_Step]_vars

\* The head unit sent the VW version query 2E C0 00 3F; the call at
\* t=200 ms read the four bytes and wrote the steering, door and lights
\* frames only
C18_Witness ==
    /\ millis = 200
    /\ tickCount = 1
    /\ radioRead = <<46, 192, 0, 63>>
    /\ radioRx = <<>>
    /\ Len(radioTx) = 3
    /\ radioTx[1][2] = 41
    /\ radioTx[2][2] = 36
    /\ radioTx[3][2] = 125

\* The commands of the inbound frames in rx from index i on, in order: a
\* frame starts at a byte 0x2E, its next byte is the command and the one
\* after it the length, and it extends over length + 1 further bytes; a
\* byte that is missing counts as 0xFF
RECURSIVE InboundCommands(_, _)
InboundCommands(rx, i) ==
    IF i > Len(rx) THEN <<>>
    ELSE IF rx[i] # 46 THEN InboundCommands(rx, i + 1)
    ELSE LET cmd == IF i + 1 <= Len(rx) THEN rx[i + 1] ELSE 255
             len == IF i + 2 <= Len(rx) THEN rx[i + 2] ELSE 255
         IN  <<cmd>> \o InboundCommands(rx, i + 3 + len + 1)

\* The frames the claim gives as answers to a sequence of commands
RECURSIVE ExpectedAnswers(_)
ExpectedAnswers(cmds) ==
    IF cmds = <<>> THEN <<>>
    ELSE (IF Head(cmds) \in {192, 8} THEN <<(<<46, 241, 3, 2, 8, 16, 241>>)>>
          ELSE IF Head(cmds) = 144 THEN <<(<<46, 145, 2, 65, 2, 41>>)>>
          ELSE <<>>)
         \o ExpectedAnswers(Tail(cmds))

\* C19: a call of handshake() of the VW variant answers each inbound
\* frame that starts with 0x2E with the one frame 2E F1 03 02 08 10 F1
\* when its command is 0xC0 or 0x08, with the one frame 2E 91 02 41 02 29
\* when it is 0x90 and with nothing otherwise, in the order of the
\* frames; bytes outside a frame get no answer, every pending byte is
\* read and the buffer is empty when the call returns.
C19_Step ==
    (radioRead' # radioRead \/ radioTx' # radioTx
     \/ Len(radioRx') < Len(radioRx))
    =>  /\ radioRx' = <<>>
        /\ radioRead' = radioRx
        /\ radioTx' = ExpectedAnswers(InboundCommands(radioRx, 1))
        /\ (\A i \in 1..Len(radioRx) : radioRx[i] # 46) => radioTx' = <<>>

-----------------------------------------------------------------------------
(* Claim on the RPM scenario *)

\* processFrame was called with frame 0x180 carrying the payload
DecodedRpmFrame(data) ==
    /\ rxCount' = rxCount + 1
    /\ lastFrame'.identifier = 384
    /\ lastFrame'.data = data

\* The scenario as stated: with payload 00 00 44 7E 00 00 00 00 the
\* field at bytes 0-1 decodes to 2504.
C20_Payload0000447E ==
    [][DecodedRpmFrame(<<0, 0, 68, 126, 0, 0, 0, 0>>)
          => gd'.engineRPM = 2504]_vars

\* C20: decoding frame 0x180 with payload 44 7E 00 00 00 00 00 00 under
\* the schema that extracts bytes 0-1 big-endian unsigned with
\* SCALE(1, 7, 0) sets ENGINE_RPM to 2504 (raw 0x447E = 17534, 17534 / 7
\* truncated).
C20_RpmScenario ==
    [][DecodedRpmFrame(<<68, 126, 0, 0, 0, 0, 0, 0>>)
          => (ret' /\ gd'.engineRPM = 2504)]_vars

\* The frame with payload 44 7E .. was the first one decoded
C20_Witness ==
    /\ rxCount = 1
    /\ lastFrame = CanFrame(384, 8, <<68, 126, 0, 0, 0, 0, 0, 0>>)
    /\ ret
    /\ framesProcessed = 1
    /\ gd.engineRPM = 2504

-----------------------------------------------------------------------------
(* Firmware update specification: the main loop of a device that receives  *)
(* OTA command lines while frames arrive on the bus                        *)

OtaChunks == {<<>>, <<1>>, <<2>>, <<1, 2>>}

\* No md5 argument, the MD5 of the bytes 1 2 in upper case, the MD5 of
\* other bytes, and a text of 31 characters
OtaMd5Args ==
    {NoMd5,
     Md5Text(32, Md5Digest(<<1, 2>>), TRUE),
     Md5Text(32, Md5Digest(<<2, 1>>), FALSE),
     Md5Text(31, Md5Digest(<<2, 1>>), FALSE)}

OtaSizes == {0, 2, MaxFirmware, MaxFirmware + 1}

OtaCommands ==
    {OtaCommand("none", 0, NoMd5, <<>>, TRUE)}
    \cup {OtaCommand("OTA_START", n, m, <<>>, ok) :
            n \in OtaSizes, m \in OtaMd5Args, ok \in BOOLEAN}
    \cup {OtaCommand("OTA_DATA", 0, NoMd5, b, ok) :
            b \in OtaChunks, ok \in BOOLEAN}
    \cup {OtaCommand("OTA_END", 0, NoMd5, <<>>, ok) : ok \in BOOLEAN}
    \cup {OtaCommand("OTA_ABORT", 0, NoMd5, <<>>, TRUE)}

OtaInstants == {2040}

OtaFrames ==
    {CanFrame(384, 8, <<68, 126, 0, 0, 0, 0, 0, 0>>)}

NextOta ==
    \/ LoopClock(OtaInstants)
    \/ LoopSerial(OtaCommands)
    \/ LoopAcquire(OtaFrames)
    \/ LoopRadio

SpecOta == InitLoop /\ [][NextOta]_vars

\* The serial step of an iteration that handled the given OTA command
OtaStep(kind) ==
    /\ pc = "serial"
    /\ pc' # "serial"
    /\ lastCmd'.kind = kind

\* The acquisition step of a real-mode iteration took a frame off the bus
FrameConsumed == AcquireStep /\ rxCount' = rxCount + 1

\* C21: while an OTA session is in progress (isOtaInProgress() is true) a
\* real-mode iteration of the main loop consumes no inbound bus frame and
\* leaves the vehicle state as it is, while processRadioUpdates keeps
\* running.
C21_Step ==
    /\ (AcquireStep /\ IsOtaInProgress(ota) /\ ~mockMode)
          => (~FrameConsumed /\ gd' = gd)
    /\ (RadioStep /\ IsOtaInProgress(ota)) => tickCount' = tickCount + 1

C21_DecodePausedDuringOta == [][C21_Step]_vars

\* C22: a real-mode iteration that finds the bus controller healthy ends
\* in the bus-silence restart if and only if more than 30000 ms have
\* passed since the last frame was received and the decoded battery
\* voltage is above 11.0 V; at 11.0 V or below (0 V until a voltage frame
\* is decoded) and in mock mode bus silence restarts nothing.
C22_Step ==
    (AcquireStep /\ pc' # "fault")
        => /\ (pc' = "restart")
                <=> (/\ ~mockMode
                     /\ millis - lastCanMessageTime' > 30000
                     /\ gd'.voltBat > 110)
           /\ restarted' <=> (pc' = "restart")

C22_SilenceRestart == [][C22_Step]_vars

\* Restarted 30001 ms after the last frame, with 14.1 V decoded
C22_Witness ==
    /\ pc = "restart"
    /\ restarted
    /\ ~mockMode
    /\ millis = 32001
    /\ lastCanMessageTime = 2000
    /\ gd.voltBat = 141

\* The bytes received in the session have the MD5 given at OTA START,
\* or none was given
OtaMd5Agrees(o) ==
    o.givenMD5.len = 32 => Md5Digest(o.md5) = o.givenMD5.hex

\* An OTA END that finds a session in progress with all the announced
\* bytes received, their MD5 as given, and Update.end(true) succeeding
OtaEndCommits ==
    /\ ota.inProgress
    /\ ota.receivedSize = ota.expectedSize
    /\ OtaMd5Agrees(ota)
    /\ lastCmd'.flashOk

\* C23: the new firmware is committed and the device rebooted only by an
\* OTA END received while a session is in progress with as many bytes
\* received as OTA START announced and, if START gave an MD5 (32 hex
\* characters), with that MD5; every other OTA END answers an error,
\* leaves no session in progress and both counters at zero, and neither
\* commits nor reboots.
C23_Step ==
    /\ (firmware' # firmware \/ pc' = "reboot")
          => (OtaStep("OTA_END") /\ OtaEndCommits
              /\ firmware' = "new" /\ restarted' /\ reply' = "OK")
    /\ (OtaStep("OTA_END") /\ ~OtaEndCommits)
          => /\ reply' = "ERROR"
             /\ ~ota'.inProgress
             /\ ota'.receivedSize = 0
             /\ ota'.expectedSize = 0
             /\ firmware' = firmware
             /\ ~restarted'
    /\ (OtaStep("OTA_END") /\ OtaEndCommits) => pc' = "reboot"

C27_Step ==
    (SwitchStep /\ lastCmd'.file = NoFramesDoc /\ lastCmd'.mountOk)
        => /\ reply' = "OK"
           /\ loadRet'
           /\ profile'.name = "Mock Demo"
           /\ profile'.frames = <<>>
           /\ mockMode'

C27_MockDemoAccepted == [][C27_Step]_vars

-----------------------------------------------------------------------------
(* Upload specification: CAN UPLOAD command lines in any order *)

UploadNames ==
    {[slash |-> FALSE, text |-> "a.json"],
     [slash |-> TRUE, text |-> "/vehicle.json"]}

UploadSizes == {0, 2, CAN_UPLOAD_MAX_SIZE, CAN_UPLOAD_MAX_SIZE + 1}

UploadChunks ==
    {<<>>, <<"N">>, <<"F">>, <<"N", "F">>, <<"n", "F">>, <<"N", "f">>,
     <<"x">>, <<"N", "F", "x", "x">>}

NoName == [slash |-> TRUE, text |-> ""]

UploadCommands ==
    {UploadCommand("UPLOAD_START", f, n, <<>>, ok) :
        f \in UploadNames, n \in UploadSizes, ok \in BOOLEAN}
    \cup {UploadCommand("UPLOAD_DATA", NoName, 0, b, TRUE) :
            b \in UploadChunks}
    \cup {UploadCommand("UPLOAD_END", NoName, 0, <<>>, ok) :
            ok \in BOOLEAN}
    \cup {UploadCommand("UPLOAD_ABORT", NoName, 0, <<>>, TRUE)}

NextUpload == CanUploadCommand(UploadCommands)

SpecUpload == InitLoop /\ [][NextUpload]_vars

\* The step that handled the given CAN UPLOAD command
UploadStep(kind) == cmdCount' = cmdCount + 1 /\ lastCmd'.kind = kind

\* An upload is in progress and the bytes received parse as JSON with a
\* string "name" and an array "frames"
UploadAcceptable ==
    /\ upload.inProgress
    /\ ~JsonError(upload.buffer.bytes)
    /\ NameIsString(upload.buffer.bytes)
    /\ FramesIsArray(upload.buffer.bytes)

\* C24: CAN UPLOAD END writes the file only if an upload is in progress
\* and the bytes received parse as JSON with a string "name" and an array
\* "frames"; otherwise it answers an error, leaves every file as it is
\* and closes the session (buffer released, no upload in progress); the
\* active profile is unchanged either way.
C24_Step ==
    UploadStep("UPLOAD_END")
        => /\ fs' # fs => UploadAcceptable
           /\ ~UploadAcceptable
                => /\ reply' = "ERROR"
                   /\ fs' = fs
                   /\ ~upload'.buffer.allocated
                   /\ ~upload'.inProgress
           /\ profile' = profile
           /\ mockMode' = mockMode

C24_UploadEnd == [][C24_Step]_vars


-----------------------------------------------------------------------------
(* Calibration specification: CFG command lines and reboots in any order,  *)
(* starting from the defaults with an erased namespace                     *)

CfgSettings ==
    {<<"steerOffset", -501>>, <<"steerOffset", -500>>,
     <<"steerOffset", 500>>, <<"steerOffset", 501>>,
     <<"STEEROFFSET", 65536>>,
     <<"steerInvert", 0>>, <<"steerInvert", 1>>,
     <<"steerScale", 0>>, <<"steerScale", 1>>,
     <<"steerScale", 200>>, <<"steerScale", 201>>,
     <<"indTimeout", 99>>, <<"indTimeout", 100>>,
     <<"indTimeout", 2000>>, <<"indTimeout", 2001>>,
     <<"rpmDiv", 0>>, <<"rpmDiv", 1>>, <<"rpmDiv", 20>>, <<"rpmDiv", 21>>,
     <<"RPMDIV", 256>>, <<"RPMDIV", 10>>,
     <<"tankCap", 19>>, <<"tankCap", 20>>,
     <<"tankCap", 100>>, <<"tankCap", 101>>,
     <<"dteDiv", 99>>, <<"dteDiv", 100>>, <<"dteDiv", 500>>,
     <<"dteDiv", 501>>, <<"DTEDIV", 0>>, <<"DTEDIV", 65536>>,
     <<"speedDiv", 5>>}

CfgCommands ==
    {CfgCommand("CFG_SET", x[1], x[2]) : x \in CfgSettings}
    \cup {CfgCommand("CFG_SAVE", "", 0), CfgCommand("CFG_RESET", "", 0)}

NextCfg ==
    \/ CfgCommandLine(CfgCommands)
    \/ ConfigReboot

SpecCfg == InitLoop /\ [][NextCfg]_vars

\* The step that handled the given CFG command resp. the reboot
CfgStep(kind) == cmdCount' = cmdCount + 1 /\ lastCmd'.kind = kind

\* The documented range of each calibration parameter
DocumentedRange(param) ==
    CASE param \in {"steerOffset", "STEEROFFSET"} -> -500..500
      [] param = "steerInvert" -> Int
      [] param = "steerScale" -> 1..200
      [] param = "indTimeout" -> 100..2000
      [] param \in {"rpmDiv", "RPMDIV"} -> 1..20
      [] param = "tankCap" -> 20..100
      [] param \in {"dteDiv", "DTEDIV"} -> 100..500
      [] OTHER -> {}

\* Every calibration value lies in its documented range
CalibrationInRange(cfg) ==
    /\ cfg.steerOffset \in -500..500
    /\ cfg.steerScale \in 1..200
    /\ cfg.indicatorTimeout \in 100..2000
    /\ cfg.rpmDivisor \in 1..20
    /\ cfg.tankCapacity \in 20..100
    /\ cfg.dteDivisor \in 100..500

\* C25: starting from the defaults, after any sequence of CFG SET, CFG
\* SAVE and CFG RESET the calibration in effect lies in the documented
\* ranges (so rpmDiv and dteDiv are never 0), because a CFG SET with an
\* out-of-range value or an unknown parameter is answered with an error
\* and changes no parameter.
C25_Step ==
    (CfgStep("CFG_SET") /\ lastCmd'.val \notin DocumentedRange(lastCmd'.param))
        => (reply' = "ERROR" /\ config' = config /\ nvs' = nvs)

C25_CalibrationInRange ==
    [](CalibrationInRange(config) /\ CalibrationInRange(nvs.values))
    /\ [][C25_Step]_vars

\* CFG SET rpmDiv 0 was refused after rpmDiv had been set to 20
C25_Witness ==
    /\ lastCmd = CfgCommand("CFG_SET", "rpmDiv", 0)
    /\ reply = "ERROR"
    /\ config.rpmDivisor = 20

\* C26: CFG SET changes the calibration in memory only: the saved values
\* change on CFG SAVE, which stores exactly the values in memory, and on
\* CFG RESET, which puts the defaults in memory and stores them; a
\* reboot (configInit) puts the last saved values in memory, the
\* defaults if nothing was saved.
C26_Step ==
    /\ CfgStep("CFG_SET") => nvs' = nvs
    /\ CfgStep("CFG_SAVE")
          => (config' = config /\ nvs'.saved /\ nvs'.values = config)
    /\ CfgStep("CFG_RESET")
          => /\ config' = ConfigDefaults
             /\ nvs'.saved
             /\ nvs'.values = ConfigDefaults
    /\ CfgStep("REBOOT")
          => /\ nvs' = nvs
             /\ config' = IF nvs.saved THEN nvs.values ELSE ConfigDefaults

-----------------------------------------------------------------------------
(* Recurrence specification: processRadioUpdates is called again and again *)
(* while the clock advances.  processRadioUpdates reads the clock and the  *)
(* stamps only through now - stamp, so time is kept relative to now: when  *)
(* the clock advances by d every stamp moves d into the past, and a stamp  *)
(* that has reached its cap stays there.  The cap is the interval the      *)
(* stamp is compared with, and twice the floor interval for the door and   *)
(* the lights stamps, whose age the recurrence property bounds.            *)

\* The stamp after the clock advanced by d, compared with cap at most
Older(stamp, d, cap) ==
    IF SubWrap32(millis, stamp) + d >= cap THEN SubWrap32(millis, cap)
    ELSE SubWrap32(stamp, d)

\* The clock advances by one of the steps between two loop iterations
LiveClock(steps) ==
    \E d \in steps :
        /\ rs' = [rs EXCEPT
                    !.lastSteeringTime = Older(@, d, STEERING_INTERVAL_MS),
                    !.lastLightsTime = Older(@, d, 2 * LIGHTS_INTERVAL_MS),
                    !.lastDoorTime = Older(@, d, 2 * DOOR_INTERVAL_MS),
                    !.lastRpmTime = Older(@, d, RPM_INTERVAL_MS),
                    !.lastSpeedTime = Older(@, d, SPEED_INTERVAL_MS),
                    !.lastFuelConsTime = Older(@, d, FUEL_CONS_INTERVAL_MS),
                    !.lastFuelConsAvgTime =
                        Older(@, d, FUEL_CONS_AVG_INTERVAL_MS),
                    !.lastTempTime = Older(@, d, TEMP_INTERVAL_MS),
                    !.lastRangeTime = Older(@, d, RANGE_INTERVAL_MS),
                    !.lastOdometerTime = Older(@, d, ODOMETER_INTERVAL_MS)]
        /\ gd' = [gd EXCEPT
                    !.lastLeftIndicatorTime =
                        Older(@, d, config.indicatorTimeout),
                    !.lastRightIndicatorTime =
                        Older(@, d, config.indicatorTimeout)]
        /\ pc = "serial"
        /\ pc' = "radio"
        /\ radioTx' = <<>>
        /\ UNCHANGED <<cmdVars, eqVars, encVars, fmlVars, uartVars, millis, procVars,
                       rxVars, loadVars, config, tickCount, mockMode,
                       lastCanMessageTime, mock, restarted, lastCmd>>

\* processRadioUpdates at the end of a loop iteration, any number of
\* times
LiveRadio ==
    /\ pc = "radio"
    /\ pc' = "serial"
    /\ RadioUpdatesBody
    /\ UNCHANGED <<cmdVars, eqVars, encVars, fmlVars, millis, gd, procVars, rxVars,
                   loadVars, config, tickCount, mockMode,
                   lastCanMessageTime, mock, restarted, lastCmd>>

\* The vehicle: the driver door opens or closes, the headlights go on or
\* off, the left indicator blinks
LiveVehicle ==
    /\ \/ gd' = [gd EXCEPT !.currentDoors = IF @ = 0 THEN 128 ELSE 0]
       \/ gd' = [gd EXCEPT !.headlightsOn = ~@]
       \/ gd' = [gd EXCEPT !.lastLeftIndicatorTime = millis]
    /\ UNCHANGED <<cmdVars, eqVars, encVars, fmlVars, radioTx, uartVars, millis,
                   procVars, rxVars, loadVars, schedVars, loopVars>>

LiveSteps == {100}

\* The longest time between two calls of processRadioUpdates
LivePeriod == CHOOSE d \in LiveSteps : \A e \in LiveSteps : e <= d

NextLive ==
    \/ LiveClock(LiveSteps)
    \/ LiveRadio
    \/ LiveVehicle

\* The end of a loop iteration: among the steps of NextLive only LiveRadio
\* takes pc from "radio" to "serial", and it can whenever pc = "radio"
LiveTurn == pc = "radio" /\ pc' = "serial"

LiveTurnIsRadio == [][LiveTurn <=> LiveRadio]_vars

\* loop() never blocks and calls processRadioUpdates in every iteration;
\* the millisecond clock is driven by a hardware timer
SpecLive ==
    /\ InitSched
    /\ [][NextLive]_vars
    /\ WF_vars(LiveClock(LiveSteps))
    /\ WF_pc(LiveTurn)

\* The message kinds: command, and subcommand of a 0x7D frame
MessageKinds ==
    {<<CMD_STEERING_WHEEL, 0>>, <<CMD_DOOR_STATUS, 0>>,
     <<CMD_MULTI_FUNCTION, SUBCMD_LIGHTS>>, <<CMD_MULTI_FUNCTION, SUBCMD_RPM>>,
     <<CMD_MULTI_FUNCTION, SUBCMD_SPEED>>, <<CMD_FUEL_CONSUMPTION, 0>>,
     <<CMD_FUEL_CONS_AVG, 0>>, <<CMD_OUTSIDE_TEMP, 0>>,
     <<CMD_REMAINING_RANGE, 0>>, <<CMD_MULTI_FUNCTION, SUBCMD_ODOMETER>>}

\* A frame of the kind is among the frames written
Emits(tx, kind) ==
    \E i \in 1..Len(tx) :
        /\ tx[i][2] = kind[1]
        /\ kind[1] = CMD_MULTI_FUNCTION => tx[i][4] = kind[2]

\* Time since the stamp
Age(stamp) == SubWrap32(millis, stamp)

\* A call comes less than one floor interval plus one tick period after
\* the last door message and the last lights message; after it the door
\* status and the lights status last sent are the current ones and less
\* than one floor interval old
C28_Step ==
    LiveRadio
        => /\ Age(rs.lastDoorTime) < DOOR_INTERVAL_MS + LivePeriod
           /\ Age(rs.lastLightsTime) < LIGHTS_INTERVAL_MS + LivePeriod
           /\ rs'.lastSentDoors = DoorStatus(gd.currentDoors)
           /\ rs'.lastSentLights = LightStatus(gd, config, millis)
           /\ Age(rs'.lastDoorTime) < DOOR_INTERVAL_MS
           /\ Age(rs'.lastLightsTime) < LIGHTS_INTERVAL_MS
           /\ Emits(radioTx', <<CMD_DOOR_STATUS, 0>>)
                => \E i \in 1..Len(radioTx') :
                      radioTx'[i] = DoorCommand(DoorStatus(gd.currentDoors))
           /\ Emits(radioTx', <<CMD_MULTI_FUNCTION, SUBCMD_LIGHTS>>)
                => \E i \in 1..Len(radioTx') :
                      radioTx'[i] =
                          LightsMessage(LightStatus(gd, config, millis))

\* C28: if processRadioUpdates keeps being called and the clock keeps
\* advancing, every message kind is emitted infinitely often; the door
\* and lights messages carry the current status and, after every call,
\* the one last sent is less than one floor interval old, so that it is
\* sent again within one floor interval plus one tick period.
C28_EveryKindRecurs ==
    /\ \A kind \in MessageKinds : []<>Emits(radioTx, kind)
    /\ [][C28_Step]_vars

\* The door status sent on its own, 100 ms after a steering message,
\* with the door as it was when last sent
C28_Witness ==
    /\ radioTx = <<DoorCommand(DoorStatus(gd.currentDoors))>>
    /\ Age(rs.lastSteeringTime) = 100
    /\ Age(rs.lastDoorTime) = 0
    /\ Age(rs.lastOdometerTime) > 1000

-----------------------------------------------------------------------------
(* Equivalence specification: the hardcoded decoder handleCanCapture under *)
(* the default calibration and processFrame under the equivalent schema    *)
(* decode the same frames, each into its own copy of GlobalData            *)

EquivalentProfile ==
    [name |-> "Nissan Juke F15", isMock |-> FALSE,
     frames |-> <<
        [canId |-> 384, fields |-> <<
            FieldConfig("ENGINE_RPM", 0, 2, "MSB_FIRST", "UINT16", "SCALE",
                        <<1, 7, 0, 0>>)>>],
        [canId |-> 644, fields |-> <<
            FieldConfig("VEHICLE_SPEED", 0, 2, "MSB_FIRST", "UINT16", "SCALE",
                        <<1, 100, 0, 0>>)>>],
        [canId |-> 1477, fields |-> <<
            FieldConfig("FUEL_LEVEL", 0, 1, "MSB_FIRST", "UINT8", "MAP_RANGE",
                        <<255, 0, 0, 45>>)>>],
        [canId |-> 1361, fields |-> <<
            FieldConfig("TEMPERATURE", 0, 1, "MSB_FIRST", "UINT8", "SCALE",
                        <<1, 1, -40, 0>>)>>],
        [canId |-> 1356, fields |-> <<
            FieldConfig("DTE", 6, 2, "MSB_FIRST", "UINT16", "SCALE",
                        <<100, 283, 0, 0>>)>>]
     >>]

\* 8-byte frames of the five identifiers: the ends of every raw range,
\* quotients with a remainder, speeds and temperatures that the one-byte
\* globals wrap
EquivFrames ==
    {CanFrame(384, 8, <<b[1], b[2], 0, 0, 0, 0, 0, 0>>) :
        b \in {<<0, 0>>, <<0, 6>>, <<68, 126>>, <<255, 255>>}}
    \cup
    {CanFrame(644, 8, <<b[1], b[2], 0, 0, 0, 0, 1, 2>>) :
        b \in {<<0, 0>>, <<39, 15>>, <<100, 0>>, <<255, 255>>}}
    \cup
    {CanFrame(1477, 8, <<b, 1, 134, 160, 0, 0, 0, 0>>) :
        b \in {0, 1, 128, 254, 255}}
    \cup
    {CanFrame(1361, 8, <<b, 0, 0, 0, 0, 0, 0, 0>>) :
        b \in {0, 40, 167, 168, 200, 255}}
    \cup
    {CanFrame(1356, 8, <<90, 0, 0, 0, 0, 128, b[1], b[2]>>) :
        b \in {<<0, 0>>, <<4, 8>>, <<255, 255>>}}

\* One frame read from the bus, decoded by handleCanCapture into gd and by
\* processFrame into gdSchema
DecodeBoth(frames) ==
    \E frame \in frames, oob \in {0, 255} :
        /\ rxCount < MaxFrames
        /\ rxCount' = rxCount + 1
        /\ lastFrame' = frame
        /\ gd' = HandleCanCapture(gd, frame, config, millis)
        /\ LET k == FindFrameConfig(profile, U16(frame.identifier))
               counts == CountFrame(k # 0, framesProcessed, unknownFrames)
           IN  /\ framesProcessed' = counts[1]
               /\ unknownFrames' = counts[2]
               /\ IF k = 0
                  THEN /\ ret' = FALSE
                       /\ readIdx' = {}
                       /\ UNCHANGED gdSchema
                  ELSE
                    /\ gdSchema' =
                          ProcessFields(gdSchema, profile.frames[k].fields, 1,
                                        frame.data, millis, oob)
                    /\ readIdx' =
                          UNION {FieldReads(profile.frames[k].fields[i]) :
                                    i \in 1..Len(profile.frames[k].fields)}
                    /\ ret' = TRUE
        /\ UNCHANGED <<cmdVars, encVars, fmlVars, radioTx, uartVars, millis,
                       profile, loadVars, schedVars, loopVars>>

InitEquiv ==
    /\ NoCalls
    /\ Boot
    /\ millis = 0
    /\ profile = EquivalentProfile

NextEquiv == DecodeBoth(EquivFrames)

SpecEquiv == InitEquiv /\ [][NextEquiv]_vars

\* The signals the two decoders are compared on
ComparedSignals ==
    {"engineRPM", "vehicleSpeed", "fuelLevel", "tempExt", "dteValue"}

-----------------------------------------------------------------------------
(* Extraction specification: extractRawValue applied to sampled frame data *)
(* under one field configuration                                          *)

\* The data types with the byte counts they stand for; a BITMASK field
\* has any of them
TypeWidths ==
    {<<"UINT8", 1>>, <<"INT8", 1>>, <<"UINT16", 2>>, <<"INT16", 2>>,
     <<"UINT24", 3>>, <<"UINT32", 4>>, <<"BITMASK", 1>>, <<"BITMASK", 2>>,
     <<"BITMASK", 3>>, <<"BITMASK", 4>>}

ExtractFields ==
    {FieldConfig("ODOMETER", start, t[2], order, t[1], "NONE", <<0, 0, 0, 0>>) :
        start \in {0, 3}, t \in TypeWidths, order \in ByteOrders}

\* Bytes with the top bit clear and set, 38 and FF among them
ExtractBytes == {0, 56, 128, 255}

ExtractData ==
    {<<a, b, c, d, 18, a, b, c>> :
        a \in ExtractBytes, b \in ExtractBytes, c \in ExtractBytes,
        d \in ExtractBytes}

\* fHist is the data and the value of the last call
ExtractRawValueCall ==
    \E data \in ExtractData :
        /\ fHist' = <<data, ExtractRawValue(data, fField, 0)>>
        /\ UNCHANGED <<cmdVars, eqVars, fField, encVars, radioTx, uartVars,
                       millis, gd, procVars, rxVars, loadVars, schedVars,
                       loopVars>>

InitExtract ==
    /\ encCmd = 0
    /\ encData = <<>>
    /\ fField \in ExtractFields
    /\ fHist = <<>>
    /\ Boot
    /\ millis = 0
    /\ profile = EmptyProfile

NextExtract == ExtractRawValueCall

SpecExtract == InitExtract /\ [][NextExtract]_vars

\* The bytes of the field, most significant first
SignificantFirst(data, field) ==
    [i \in 1..field.byteCount |->
        IF field.byteOrder = "MSB_FIRST" THEN data[field.startByte + i]
        ELSE data[field.startByte + field.byteCount + 1 - i]]

\* v is the non-negative number whose base-256 digits are the bytes
IsUnsignedValue(v, bytes) ==
    LET n == Len(bytes)
        digit(k) == IF k <= n THEN bytes[n + 1 - k] ELSE 0
    IN  /\ v >= 0
        /\ v % 65536 = digit(2) * 256 + digit(1)
        /\ v \div 65536 = digit(4) * 256 + digit(3)

\* C30: extractRawValue takes byteCount bytes from startByte, the first
\* one most significant for MSB-first and the last one for LSB-first;
\* a signed 1-byte or 2-byte field is sign-extended (FF 38 MSB-first
\* gives -200 signed and 65336 unsigned), and every other field, so
\* every 3- or 4-byte field, yields the non-negative unsigned value of
\* its bytes.
C30_ExtractRawValue ==
    fHist # <<>> =>
        LET data == fHist[1]
            v == fHist[2]
            bytes == SignificantFirst(data, fField)
        IN  /\ CASE fField.dataType = "INT8" ->
                        IsUnsignedValue(IF v < 0 THEN v + 256 ELSE v, bytes)
                        /\ v \in -128..127
                 [] fField.dataType = "INT16" ->
                        IsUnsignedValue(IF v < 0 THEN v + 65536 ELSE v, bytes)
                        /\ v \in -32768..32767
                 [] OTHER -> IsUnsignedValue(v, bytes)
            /\ (bytes = <<255, 56>> /\ fField.dataType = "INT16") => v = -200
            /\ (bytes = <<255, 56>> /\ fField.dataType = "UINT16")
                  => v = 65336

-----------------------------------------------------------------------------
(* Temperature specification: sendOutsideTempMessage applied to every      *)
(* value the int8_t tempExt can hold                                       *)

\* sendOutsideTempMessage(tempExt), as processRadioUpdates calls it
SendOutsideTempCall ==
    /\ encCmd' = CMD_OUTSIDE_TEMP
    /\ encData' = SubSeq(OutsideTempMessage(gd.tempExt), 4, 15)
    /\ radioTx' = <<OutsideTempMessage(gd.tempExt)>>
    /\ UNCHANGED <<cmdVars, eqVars, uartVars, fmlVars, millis, gd, procVars,
                   rxVars, loadVars, schedVars, loopVars>>

InitTemp ==
    /\ NoCalls
    /\ Started
    /\ gd \in {[GlobalDataDefaults EXCEPT !.tempExt = t] : t \in -128..127}
    /\ mockMode = TRUE
    /\ lastCanMessageTime = 0
    /\ mock = MockConstructed
    /\ millis = 0
    /\ profile = EmptyProfile

NextTemp == SendOutsideTempCall

SpecTemp == InitTemp /\ [][NextTemp]_vars

\* C31: for every temperature tempExt can hold, the 0x28 frame carries a
\* 12-byte payload whose byte 5 is (temp + 40) * 2 and whose other bytes
\* are 0, so that byte5 / 2 - 40 gives the temperature back; 20 degrees
\* is sent as 0x78.
C31_TemperatureRoundTrip ==
    radioTx # <<>> =>
        LET frame == radioTx[1]
            payload == SubSeq(frame, 4, Len(frame) - 1)
        IN  /\ frame[2] = 40
            /\ Len(payload) = 12
            /\ payload[6] = (gd.tempExt + 40) * 2
            /\ \A i \in (1..12) \ {6} : payload[i] = 0
            /\ (payload[6] \div 2) - 40 = gd.tempExt
            /\ gd.tempExt = 20 => payload[6] = 120

-----------------------------------------------------------------------------
(* Steering specification: the steering section of processRadioUpdates     *)
(* applied to sampled values of currentSteer under the calibrations that   *)
(* CFG SET accepts                                                         *)

\* int16_t currentSteer: both ends, the centre value of the Juke, values
\* around zero
SteerSamples == {-32768, -5400, -2912, -101, 0, 1, 2912, 32767}

\* Calibrations within the ranges of cfgSet: the ends and the defaults
SteerCalibrations ==
    {[ConfigDefaults EXCEPT !.steerOffset = off, !.steerScale = sc,
                            !.steerInvert = inv] :
        off \in {-500, 0, 100, 500}, sc \in {1, 4, 100, 200},
        inv \in BOOLEAN}

\* The steering section of processRadioUpdates when it is due
SendSteeringCall ==
    /\ encCmd' = CMD_STEERING_WHEEL
    /\ encData' = SubSeq(SteeringAngleMessage(SteeringAngle(gd, config)), 4, 5)
    /\ radioTx' = <<SteeringAngleMessage(SteeringAngle(gd, config))>>
    /\ UNCHANGED <<cmdVars, eqVars, uartVars, fmlVars, millis, gd, procVars,
                   rxVars, loadVars, schedVars, loopVars>>

InitSteer ==
    /\ NoCalls
    /\ StartedUncalibrated
    /\ gd \in {[GlobalDataDefaults EXCEPT !.currentSteer = st] :
                  st \in SteerSamples}
    /\ config \in SteerCalibrations
    /\ mockMode = TRUE
    /\ lastCanMessageTime = 0
    /\ mock = MockConstructed
    /\ millis = 0
    /\ profile = EmptyProfile

NextSteer == SendSteeringCall

SpecSteer == InitSteer /\ [][NextSteer]_vars

\* trunc((currentSteer + steerOffset) * steerScale / 100), negated when
\* steerInvert is set
CalibratedAngle(g, cfg) ==
    LET angle == TruncDiv((g.currentSteer + cfg.steerOffset) * cfg.steerScale,
                          100)
    IN  IF cfg.steerInvert THEN -angle ELSE angle

\* C32: for every steering value and every calibration CFG SET accepts,
\* the 16-bit little-endian angle of the 0x29 frame equals
\* trunc((currentSteer + steerOffset) * steerScale / 100), negated when
\* steerInvert is set, without 16-bit wraparound, and lies in
\* -5400..5400.
C32_SteeringAngle ==
    radioTx # <<>> =>
        LET frame == radioTx[1]
            sent == S16(frame[5] * 256 + frame[4])
        IN  /\ frame[2] = 41
            /\ frame[3] = 2
            /\ sent = CalibratedAngle(gd, config)
            /\ sent \in -5400..5400

-----------------------------------------------------------------------------
\* The OTA counters of a session in progress
OtaCountersInRange(o) ==
    o.inProgress =>
        /\ 0 <= o.receivedSize
        /\ o.receivedSize <= o.expectedSize
        /\ o.expectedSize > 0

\* ota.md5 holds the bytes written to flash and added to otaMD5
C33_Step ==
    /\ (/\ OtaStep("OTA_DATA")
        /\ ota.inProgress
        /\ lastCmd'.bytes # <<>>
        /\ ota.receivedSize + Len(lastCmd'.bytes) > ota.expectedSize)
          => /\ ota'.md5 = ota.md5
             /\ ~ota'.inProgress
             /\ reply' = "ERROR"
             /\ firmware' = firmware
    /\ ((OtaStep("OTA_DATA") \/ OtaStep("OTA_END")) /\ ~ota.inProgress)
          => /\ reply' = "ERROR"
             /\ ota' = ota
             /\ firmware' = firmware
             /\ ~restarted'
    /\ (OtaStep("OTA_START") /\ ota.inProgress)
          => /\ reply' = "ERROR"
             /\ ota' = ota
             /\ firmware' = firmware

\* C33: while an OTA session is in progress 0 <= otaReceivedSize <=
\* otaExpectedSize and otaExpectedSize > 0; an OTA DATA chunk that would
\* exceed the declared size is not written and aborts the session, OTA
\* DATA and OTA END without a session answer an error and change nothing,
\* and OTA START during a session is rejected and leaves the session as
\* it is.
C33_OtaCounters ==
    /\ []OtaCountersInRange(ota)
    /\ [][C33_Step]_vars

\* A chunk of two bytes after one byte of a two-byte image: refused, the
\* session aborted, one byte written
C33_Witness ==
    /\ lastCmd.kind = "OTA_DATA"
    /\ lastCmd.bytes = <<1, 2>>
    /\ lastCmd.flashOk
    /\ ota.md5 = <<1>>
    /\ ~ota.inProgress
    /\ ota.expectedSize = 0
    /\ reply = "ERROR"

-----------------------------------------------------------------------------
\* The upload counters of a session in progress
UploadCountersInRange(u) ==
    u.inProgress =>
        /\ u.receivedSize <= u.expectedSize
        /\ u.expectedSize <= CAN_UPLOAD_MAX_SIZE

\* Nothing was written at or beyond offset uploadExpectedSize
UploadWritesInRange(u) ==
    /\ ~u.overrun
    /\ u.buffer.allocated => u.highWater <= u.expectedSize

\* A DATA chunk longer than the remaining space is rejected and leaves
\* the statics and the buffer as they are; without a buffer nothing is
\* written
C34_Step ==
    /\ (/\ UploadStep("UPLOAD_DATA")
        /\ upload.inProgress
        /\ upload.buffer.allocated
        /\ Len(lastCmd'.bytes) > upload.expectedSize - upload.receivedSize)
          => /\ reply' = "ERROR"
             /\ upload' = upload
    /\ (UploadStep("UPLOAD_DATA") /\ ~upload.buffer.allocated)
          => /\ reply' = "ERROR"
             /\ upload' = upload

\* C34: for any sequence of CAN UPLOAD commands decoded data is never
\* written at or beyond offset uploadExpectedSize of the upload buffer,
\* nor through a released buffer; uploadReceivedSize <=
\* uploadExpectedSize <= 8192 while an upload is in progress, and a DATA
\* chunk whose decoded length exceeds the remaining space writes nothing
\* and is rejected with the session state unchanged.
C34_UploadBufferBounds ==
    /\ [](UploadCountersInRange(upload) /\ UploadWritesInRange(upload))
    /\ [][C34_Step]_vars

-----------------------------------------------------------------------------
\* The lights frames among the frames written carry none of the bits
NoLightsBit(tx, bits) ==
    \A i \in 1..Len(tx) :
        (tx[i][2] = CMD_MULTI_FUNCTION /\ tx[i][4] = SUBCMD_LIGHTS)
            => BitAnd(tx[i][5], bits) = 0

-----------------------------------------------------------------------------
\* The md5 argument is the MD5 of the bytes, letter case apart
Md5Matches(md5, bytes) ==
    md5.len = 32 /\ md5.hex = Md5Digest(bytes)

\* C36: when OTA START was given an md5 argument, of any length or
\* letter case, OTA END commits the firmware only if the MD5 of the bytes
\* received in the session equals the argument, compared without regard
\* to case; such a session never completes unverified.
C36_Step ==
    (/\ OtaStep("OTA_END")
     /\ ota.inProgress
     /\ ota.givenMD5 # NoMd5
     /\ (firmware' = "new" \/ pc' = "reboot"))
        => Md5Matches(ota.givenMD5, ota.md5)

C36_Md5ArgumentVerified == [][C36_Step]_vars

-----------------------------------------------------------------------------
\* C37: CAN UPLOAD END saves a file only when the number of bytes
\* received in the session equals the size declared at CAN UPLOAD START;
\* when fewer bytes were received it reports an error and saves nothing.
C37_Step ==
    UploadStep("UPLOAD_END")
        => /\ (fs' # fs \/ reply' = "OK")
                => upload.receivedSize = upload.expectedSize
           /\ (upload.inProgress /\ upload.receivedSize < upload.expectedSize)
                => (reply' = "ERROR" /\ fs' = fs)

-----------------------------------------------------------------------------
\* The payloads of the frames of the kind among the frames written
PayloadsSent(tx, kind) ==
    {tx[i][IF kind[1] = CMD_MULTI_FUNCTION THEN 5 ELSE 4] :
        i \in {k \in 1..Len(tx) : Emits(<<tx[k]>>, kind)}}

\* The number of frames of the kind among the frames written
CountSent(tx, kind) ==
    Cardinality({k \in 1..Len(tx) : Emits(<<tx[k]>>, kind)})

\* What one call of processRadioUpdates does with the payload computed
\* and the payload last sent
SentinelStep(kind, computed, last, lastAfter, first) ==
    /\ BitAnd(computed, 7) = 0
    /\ computed # 255
    /\ first => CountSent(radioTx', kind) = 1
    /\ PayloadsSent(radioTx', kind) \subseteq {computed}
    /\ CountSent(radioTx', kind) = 0 => lastAfter = last
    /\ lastAfter = computed

C38_Step ==
    tickCount' # tickCount
        => /\ SentinelStep(<<CMD_DOOR_STATUS, 0>>, DoorStatus(gd.currentDoors),
                           rs.lastSentDoors, rs'.lastSentDoors, tickCount = 0)
           /\ SentinelStep(<<CMD_MULTI_FUNCTION, SUBCMD_LIGHTS>>,
                           LightStatus(gd, config, millis),
                           rs.lastSentLights, rs'.lastSentLights,
                           tickCount = 0)

\* C38: the door payload and the lights payload computed by
\* processRadioUpdates use the bits 0x08..0x80 only and so never equal
\* the initial last-sent value 0xFF; the first call after boot emits one
\* door frame and one lights frame, and after every call lastSentDoors
\* and lastSentLights are the payloads most recently transmitted, which
\* are the payloads computed in that call.
C38_SentinelNeverComputed ==
    /\ \A doors \in 0..255 :
          BitAnd(DoorStatus(doors), 7) = 0 /\ DoorStatus(doors) # 255
    /\ [][C38_Step]_vars

\* The first call, made after the driver door was decoded as open: a
\* door frame and a lights frame
C38_Witness ==
    /\ tickCount = 1
    /\ rxCount = 1
    /\ CountSent(radioTx, <<CMD_DOOR_STATUS, 0>>) = 1
    /\ CountSent(radioTx, <<CMD_MULTI_FUNCTION, SUBCMD_LIGHTS>>) = 1
    /\ rs.lastSentDoors = MASK_DOOR_DRIVER

-----------------------------------------------------------------------------
(* The signals of the mock generator in the main loop                      *)

\* The GlobalData member writeToGlobalData stores a bounded field in
MockPublished(g, field) ==
    CASE field = "STEERING" -> g.currentSteer
      [] field = "ENGINE_RPM" -> g.engineRPM
      [] field = "VEHICLE_SPEED" -> g.vehicleSpeed
      [] field = "VOLTAGE" -> g.voltBat
      [] field = "TEMPERATURE" -> g.tempExt
      [] field = "FUEL_CONS_INST" -> g.fuelConsumptionInst
      [] field = "ODOMETER" -> g.currentOdo
      [] field = "FUEL_LEVEL" -> g.fuelLevel
      [] field = "DTE" -> g.dteValue
      [] field = "FUEL_CONS_AVG" -> g.fuelConsumptionAvg

\* One call of update() from loop(): what a bounded field does in it
MockFieldStep(b, effective, m, mAfter, gAfter) ==
    LET f == b.field
        old == m.currentValues[f]
        new == mAfter.currentValues[f]
        moved == IF new >= old THEN new - old ELSE old - new
    IN  /\ effective =>
              /\ MockPublished(gAfter, f) >= b.minValue
              /\ MockPublished(gAfter, f) <= b.maxValue
        /\ b.cycleStep # 0 =>
              /\ moved = (IF effective THEN b.cycleStep ELSE 0)
              /\ (mAfter.directions[f] # m.directions[f])
                     <=> (effective /\ new \in {b.minValue, b.maxValue})
        /\ (b.cycleStep = 0 /\ effective) =>
              MockPublished(gAfter, f) = b.typicalValue

C39_Step ==
    (pc = "acquire" /\ Producer(mockMode) = "mock" /\ pc' = "radio") =>
        \A i \in 1..Len(MockDefaultBounds) :
            MockFieldStep(MockDefaultBounds[i],
                          ~MockUpdateSkipped(millis, mock.lastUpdate,
                                             mock.updateInterval),
                          mock, mock', gd')

\* C39: whenever loop() runs the mock generator, also after mock mode was
\* entered at runtime through CAN LOAD / CAN RELOAD, every bounded signal
\* published to GlobalData lies within its [min, max] after an effective
\* update(), every oscillating field moves by exactly its step per effective
\* update and not at all in a skipped one, reverses direction exactly when it
\* reaches a bound, and the static fields are published at their typical value.
C39_MockSignalsInBounds == [][C39_Step]_vars

-----------------------------------------------------------------------------
(* The legacy and the current encoder on the same inputs                   *)

\* The last byte transmettreVersPoste writes: (uint8_t)(0xFF - sum)
LegacyChecksum(commande, donnees) ==
    LET frame == TransmettreVersPoste(commande, donnees)
    IN  frame[Len(frame)]

\* C40: for every command byte, length and payload the checksum of the legacy
\* encoder, 0xFF - (cmd + len + sum of payload) on 8-bit values, equals the
\* checksum of the current encoder, ((cmd + len + sum of payload) mod 256)
\* XOR 0xFF, and the frame sendCanboxMessage writes is byte for byte the frame
\* transmettreVersPoste writes for the same inputs.
C40_EncodersAgree ==
    radioTx # <<>> =>
        /\ LegacyChecksum(encCmd, encData) = Checksum(encCmd, encData)
        /\ radioTx[1][Len(radioTx[1])] = LegacyChecksum(encCmd, encData)
        /\ radioTx[1] = TransmettreVersPoste(encCmd, encData)

\* A frame whose 8-bit sum wraps twice, as both encoders write it
C40_Witness ==
    /\ encCmd = 255
    /\ encData = <<255, 128, 1>>
    /\ radioTx = <<TransmettreVersPoste(255, <<255, 128, 1>>)>>
    /\ radioTx[1] = <<46, 255, 3, 255, 128, 1, 125>>

====
